---- MODULE Spec2Model ----
(***************************************************************************)
(* Model of the computation layer of the Toronto open-data dashboard:      *)
(*   pages/api/toronto-dashboard.ts  (dashboard endpoint)                  *)
(*   src/lib/supabase.ts             (data-readiness endpoint)             *)
(* A record set is fetched, then the pure calculators run over it.         *)
(* JavaScript numbers are modelled as exact rationals (with NaN for 0/0),  *)
(* calendar dates as integer day numbers.                                  *)
(***************************************************************************)
EXTENDS Integers, Sequences, FiniteSets, TLC

VARIABLES services, dbError, pc, status, costDistribution, wardAnalysis,
          dataQuality, readinessMetrics, direct, timeSeries, highestExpenses, ran,
          filters, query, isUserAction, isReady, routerIsReady, syncPending

\* the state of the useTorontoFilters hook and of the router it reads
hookVars == <<filters, query, isUserAction, isReady, routerIsReady, syncPending>>

\* the state of the endpoints and calculators
dataVars == <<services, dbError, pc, status, costDistribution, wardAnalysis,
              dataQuality, readinessMetrics, direct, timeSeries, highestExpenses, ran>>

vars == <<services, dbError, pc, status, costDistribution, wardAnalysis,
          dataQuality, readinessMetrics, direct, timeSeries, highestExpenses, ran,
          filters, query, isUserAction, isReady, routerIsReady, syncPending>>

(***************************************************************************)
(* Bounds of the model: the longest record list of each specification.     *)
(***************************************************************************)
MaxCostLen == 5

MaxWardLen == 3

MaxQualLen == 2

MaxSeriesLen == 3

MaxPureLen == 2

MaxRulesLen == 2

MaxCoverLen == 3

(***************************************************************************)
(* null of a numeric or date column, null of a text column                 *)
(***************************************************************************)
NULL == -99999

NULLSTR == "null"

(***************************************************************************)
(* JavaScript numbers as exact rationals [n, d]; d = 0 is NaN (0/0) or an  *)
(* infinity (n = 1 or -1).                                                 *)
(***************************************************************************)
Abs(x) == IF x < 0 THEN -x ELSE x

Sign(x) == IF x < 0 THEN -1 ELSE IF x > 0 THEN 1 ELSE 0

RECURSIVE GCD(_, _)
GCD(a, b) == IF b = 0 THEN a ELSE GCD(b, a % b)

NaN == [n |-> 0, d |-> 0]

IsNaN(x) == x.d = 0 /\ x.n = 0

IsFinite(x) == x.d > 0

\* the number a / b of two integers, as JavaScript computes a / b
Div(a, b) ==
    IF b = 0 THEN [n |-> Sign(a), d |-> 0]
    ELSE LET g == GCD(Abs(a), Abs(b))
             s == IF b < 0 THEN -1 ELSE 1
         IN  [n |-> s * (a \div g), d |-> s * (b \div g)]

Num(a) == [n |-> a, d |-> 1]

RAdd(x, y) ==
    IF IsFinite(x) /\ IsFinite(y)
    THEN LET g == GCD(x.d, y.d)
         IN  Div(x.n * (y.d \div g) + y.n * (x.d \div g), (x.d \div g) * y.d)
    ELSE IF IsNaN(x) \/ IsNaN(y) THEN NaN
    ELSE IF IsFinite(x) THEN y
    ELSE IF IsFinite(y) THEN x
    ELSE IF x.n = y.n THEN x ELSE NaN

RNeg(x) == [n |-> -x.n, d |-> x.d]

RSub(x, y) == RAdd(x, RNeg(y))

RMul(x, y) ==
    IF IsFinite(x) /\ IsFinite(y)
    THEN LET g1 == GCD(Abs(x.n), y.d)
             g2 == GCD(Abs(y.n), x.d)
         IN  Div((x.n \div g1) * (y.n \div g2), (x.d \div g2) * (y.d \div g1))
    ELSE IF IsNaN(x) \/ IsNaN(y) \/ x.n = 0 \/ y.n = 0 THEN NaN
    ELSE [n |-> Sign(x.n) * Sign(y.n), d |-> 0]

\* x / y
RDiv(x, y) ==
    IF IsFinite(y) /\ y.n # 0 THEN RMul(x, [n |-> Sign(y.n) * y.d, d |-> Abs(y.n)])
    ELSE IF IsFinite(y) THEN (IF IsFinite(x) THEN [n |-> Sign(x.n), d |-> 0] ELSE x)
    ELSE IF IsFinite(x) THEN (IF IsNaN(y) THEN NaN ELSE Num(0))
    ELSE NaN

\* x < y, x <= y: false when either side is NaN
RLt(x, y) ==
    IF IsNaN(x) \/ IsNaN(y) THEN FALSE
    ELSE IF IsFinite(x) /\ IsFinite(y) THEN x.n * y.d < y.n * x.d
    ELSE IF IsFinite(x) THEN y.n > 0
    ELSE IF IsFinite(y) THEN x.n < 0
    ELSE x.n < y.n

RLe(x, y) == ~IsNaN(x) /\ ~IsNaN(y) /\ ~RLt(y, x)

\* Math.min, Math.max, Math.abs
RMin(x, y) == IF IsNaN(x) \/ IsNaN(y) THEN NaN ELSE IF RLt(y, x) THEN y ELSE x

RMax(x, y) == IF IsNaN(x) \/ IsNaN(y) THEN NaN ELSE IF RLt(x, y) THEN y ELSE x

RAbs(x) == [n |-> Abs(x.n), d |-> x.d]

RECURSIVE RSum(_)
RSum(s) == IF s = <<>> THEN Num(0) ELSE RAdd(RSum(SubSeq(s, 1, Len(s) - 1)), s[Len(s)])

\* floor of a finite rational, Math.ceil of a / b for b > 0
Floor(x) == x.n \div x.d

CeilDiv(a, b) == -((-a) \div b)

(***************************************************************************)
(* Array helpers: filter, map(...).length, reduce((sum, s) => sum + f(s))  *)
(***************************************************************************)
Filter(s, P(_)) == SelectSeq(s, P)

Count(s, P(_)) == Len(SelectSeq(s, P))

RECURSIVE SumSeq(_)
SumSeq(s) == IF s = <<>> THEN 0 ELSE SumSeq(SubSeq(s, 1, Len(s) - 1)) + s[Len(s)]

SumOf(s, f(_)) == SumSeq([i \in 1..Len(s) |-> f(s[i])])

\* Array.prototype.sort((a, b) => a - b) on numbers: ascending, stable
RECURSIVE InsertAsc(_, _)
InsertAsc(sorted, x) ==
    IF sorted = <<>> THEN <<x>>
    ELSE IF sorted[Len(sorted)] <= x THEN Append(sorted, x)
    ELSE Append(InsertAsc(SubSeq(sorted, 1, Len(sorted) - 1), x), sorted[Len(sorted)])

RECURSIVE SortAsc(_)
SortAsc(s) ==
    IF s = <<>> THEN <<>> ELSE InsertAsc(SortAsc(SubSeq(s, 1, Len(s) - 1)), s[Len(s)])

(***************************************************************************)
(* ServiceResult (types/api.ts)                                            *)
(***************************************************************************)
ServiceResult(id, sd, ed, division, result, ward, cost, notes) ==
    [id |-> id, start_date |-> sd, end_date |-> ed,
     service_division_owner |-> division, service_result |-> result,
     ward |-> ward, estimated_cost |-> cost, notes |-> notes]

\* s.estimated_cost || 0
CostOrZero(s) == IF s.estimated_cost = NULL THEN 0 ELSE s.estimated_cost

\* truthiness of a text column: neither null nor ''
Truthy(str) == str # NULLSTR /\ str # ""

(***************************************************************************)
(* calculateCostDistribution (toronto-dashboard.ts 591-688)                *)
(*                                                                         *)
(* A bin edge is either a rational (linear bins) or the real number        *)
(* 10^(logMin + k*logBinSize) = a^((H-k)/H) * b^(k/H) with a = q75Cost,    *)
(* b = max, H = highBinCount (logarithmic bins).  Comparing a cost with    *)
(* such an edge is exact: cost <= edge  iff  cost^H <= a^(H-k) * b^k.      *)
(***************************************************************************)
RECURSIVE Pow(_, _)
Pow(x, e) == IF e = 0 THEN 1 ELSE x * Pow(x, e - 1)

LinEdge(r) == [log |-> FALSE, r |-> r, k |-> 0, H |-> 1, a |-> 1, b |-> 1]

LogEdge(k, H, a, b) == [log |-> TRUE, r |-> Num(0), k |-> k, H |-> H, a |-> a, b |-> b]

\* cost <= edge
LeEdge(cost, e) ==
    IF e.log THEN Pow(cost, e.H) <= Pow(e.a, e.H - e.k) * Pow(e.b, e.k)
    ELSE RLe(Num(cost), e.r)

\* cost >= edge
GeEdge(cost, e) ==
    IF e.log THEN Pow(cost, e.H) >= Pow(e.a, e.H - e.k) * Pow(e.b, e.k)
    ELSE RLe(e.r, Num(cost))

\* the filter that counts a bin's members: binMin <= cost <= binMax in the
\* linear loops (626, 673), binMin < cost <= binMax in the logarithmic loop (653)
InBin(cost, bin) ==
    IF bin.openLow THEN ~LeEdge(cost, bin.min) /\ LeEdge(cost, bin.max)
    ELSE GeEdge(cost, bin.min) /\ LeEdge(cost, bin.max)

MakeBin(costs, lo, hi, openLow) ==
    LET b0 == [min |-> lo, max |-> hi, openLow |-> openLow]
        count == Len(SelectSeq(costs, LAMBDA c : InBin(c, b0)))
    IN  [min |-> lo, max |-> hi, openLow |-> openLow, count |-> count,
         percentage |-> RMul(Div(count, Len(costs)), Num(100))]

\* costs: the positive costs, ascending (592-595)
PositiveCosts(svcs) ==
    SortAsc(SelectSeq([i \in 1..Len(svcs) |-> CostOrZero(svcs[i])], LAMBDA c : c > 0))

\* Math.ceil(Math.sqrt(n) * 0.8): the least k with 5k >= 4 sqrt(n)
CeilSqrt08(n) == CHOOSE k \in 0..n : 25 * k * k >= 16 * n /\ (k = 0 \/ 25 * (k - 1) * (k - 1) < 16 * n)

Min2(a, b) == IF a < b THEN a ELSE b

Max2(a, b) == IF a > b THEN a ELSE b

BinCount(n) == Min2(12, Max2(6, CeilSqrt08(n)))

\* Math.ceil(binCount * 0.7)
LowBinCount(binCount) == CeilDiv(7 * binCount, 10)

MedianCost(costs) == costs[(Len(costs) \div 2) + 1]

Q75Cost(costs) == costs[((3 * Len(costs)) \div 4) + 1]

\* range > medianCost * 100 (615)
IsHybrid(costs) == costs[Len(costs)] - costs[1] > MedianCost(costs) * 100

\* every bin is pushed, the empty ones too
NonEmptyOrNot(bins) == bins

NonEmpty(bins) == SelectSeq(bins, LAMBDA b : b.count > 0)

\* equal-width bins over [lo, hi]: the loops at 623-637 and 670-684
LinearBins(costs, lo, hi, cnt) ==
    LET size == Div(hi - lo, cnt)
        edge(i) == RAdd(Num(lo), RMul(Num(i), size))
    IN  NonEmpty([j \in 1..cnt |->
            MakeBin(costs, LinEdge(edge(j - 1)),
                    IF j = cnt THEN LinEdge(Num(hi)) ELSE LinEdge(edge(j)), FALSE)])

\* logarithmic bins over (q75, max]: the loop at 647-664
LogBins(costs, q75, max, H) ==
    NonEmpty([j \in 1..H |->
        MakeBin(costs,
                IF j = 1 THEN LinEdge(Num(q75)) ELSE LogEdge(j - 1, H, q75, max),
                LogEdge(j, H, q75, max), TRUE)])

HybridBins(costs, binCount) ==
    LET min  == costs[1]
        max  == costs[Len(costs)]
        q75  == Q75Cost(costs)
        low  == LinearBins(costs, min, q75, LowBinCount(binCount))
        high == IF \E i \in 1..Len(costs) : costs[i] > q75
                THEN LogBins(costs, q75, max, binCount - Len(low))
                ELSE <<>>
    IN  low \o high

calculateCostDistribution(svcs) ==
    LET costs == PositiveCosts(svcs)
    IN  IF costs = <<>> THEN <<>>
        ELSE IF IsHybrid(costs) THEN HybridBins(costs, BinCount(Len(costs)))
        ELSE LinearBins(costs, costs[1], costs[Len(costs)], BinCount(Len(costs)))

(***************************************************************************)
(* calculateWardAnalysis (toronto-dashboard.ts 722-811)                    *)
(***************************************************************************)
ValidWardCount == 25

Ward66 == 66

IsPass(s) == s.service_result = "PASS"

IsFail(s) == s.service_result = "FAIL"

\* s.service_result === null || s.service_result === ''
IsUnknown(s) == s.service_result = NULLSTR \/ s.service_result = ""

\* one entry of validWards (729-746)
\* costEfficiency guarded by totalServices > 0 alone
WardMetricsAnyCost(svcs, wardNum) ==
    LET wardServices  == SelectSeq(svcs, LAMBDA s : s.ward = wardNum)
        totalServices == Len(wardServices)
        totalCost     == SumOf(wardServices, CostOrZero)
        rate(k)       == IF totalServices > 0 THEN RMul(Div(k, totalServices), Num(100)) ELSE Num(0)
    IN  [ward |-> wardNum,
         totalServices |-> totalServices,
         totalCost |-> totalCost,
         avgCost |-> IF totalServices > 0 THEN Div(totalCost, totalServices) ELSE Num(0),
         passRate |-> rate(Count(wardServices, IsPass)),
         failRate |-> rate(Count(wardServices, IsFail)),
         unknownRate |-> rate(Count(wardServices, IsUnknown)),
         costEfficiency |->
             IF totalServices > 0
             THEN RDiv(Div(Count(wardServices, IsPass), totalServices),
                       RDiv(Div(totalCost, totalServices), Num(1000)))
             ELSE Num(0)]

WardMetrics(svcs, wardNum) ==
    LET wardServices  == SelectSeq(svcs, LAMBDA s : s.ward = wardNum)
        totalServices == Len(wardServices)
        totalCost     == SumOf(wardServices, CostOrZero)
        passCount     == Count(wardServices, IsPass)
        failCount     == Count(wardServices, IsFail)
        unknownCount  == Count(wardServices, IsUnknown)
        rate(k)       == IF totalServices > 0 THEN RMul(Div(k, totalServices), Num(100)) ELSE Num(0)
    IN  [ward |-> wardNum,
         totalServices |-> totalServices,
         totalCost |-> totalCost,
         avgCost |-> IF totalServices > 0 THEN Div(totalCost, totalServices) ELSE Num(0),
         passRate |-> rate(passCount),
         failRate |-> rate(failCount),
         unknownRate |-> rate(unknownCount),
         costEfficiency |->
             IF totalServices > 0 /\ totalCost > 0
             THEN RDiv(Div(passCount, totalServices),
                       RDiv(Div(totalCost, totalServices), Num(1000)))
             ELSE Num(0)]

\* the wards without records are not dropped
ValidWardsUnfiltered(svcs) == [w \in 1..ValidWardCount |-> WardMetrics(svcs, w)]

\* validWardNumbers.map(...).filter(ward => ward.totalServices > 0) (729-747)
ValidWards(svcs) ==
    SelectSeq([w \in 1..ValidWardCount |-> WardMetrics(svcs, w)],
              LAMBDA m : m.totalServices > 0)

\* the anomaly block (725, 749-779)
InvalidWard66(svcs, validWards) ==
    LET ward66Services == SelectSeq(svcs, LAMBDA s : s.ward = Ward66)
        n              == Len(ward66Services)
        ward66TotalCost == SumOf(ward66Services, CostOrZero)
        ward66PassRate == IF n > 0 THEN RMul(Div(Count(ward66Services, IsPass), n), Num(100)) ELSE Num(0)
        ward66AvgCost  == IF n > 0 THEN Div(ward66TotalCost, n) ELSE Num(0)
        nv             == Len(validWards)
        validWardsAvgCost ==
            IF nv > 0 THEN RDiv(RSum([i \in 1..nv |-> validWards[i].avgCost]), Num(nv)) ELSE Num(0)
        validWardsAvgPassRate ==
            IF nv > 0 THEN RDiv(RSum([i \in 1..nv |-> validWards[i].passRate]), Num(nv)) ELSE Num(0)
        allCost        == SumOf(svcs, CostOrZero)
    IN  [count |-> n,
         totalCost |-> ward66TotalCost,
         avgCost |-> ward66AvgCost,
         passRate |-> ward66PassRate,
         percentageOfTotalServices |->
             IF Len(svcs) > 0 THEN RMul(Div(n, Len(svcs)), Num(100)) ELSE Num(0),
         percentageOfTotalCost |->
             IF allCost > 0 THEN RMul(Div(ward66TotalCost, allCost), Num(100)) ELSE Num(0),
         avgCostDifference |-> RSub(ward66AvgCost, validWardsAvgCost),
         passRateDifference |-> RSub(ward66PassRate, validWardsAvgPassRate)]

\* one unsorted entry of wardEfficiencyRanking (783-797)
EfficiencyItem(ward) ==
    [ward |-> ward.ward,
     efficiencyScore |->
         IF RLt(Num(0), ward.passRate) /\ RLt(Num(0), ward.avgCost)
         THEN RMul(RDiv(RDiv(ward.passRate, Num(100)), RDiv(ward.avgCost, Num(1000))), Num(100))
         ELSE Num(0),
     totalServices |-> ward.totalServices,
     totalCost |-> ward.totalCost,
     passRate |-> ward.passRate,
     costPerPassingService |->
         IF RLt(Num(0), ward.passRate)
         THEN RDiv(Num(ward.totalCost),
                   RMul(Num(ward.totalServices), RDiv(ward.passRate, Num(100))))
         ELSE [n |-> 1, d |-> 0],
     rank |-> 0]

\* sorting on a.efficiencyScore - b.efficiencyScore instead
KeepsBeforeAscending(a, b) == ~RLt(b.efficiencyScore, a.efficiencyScore)

\* the comparator of .sort((a, b) => b.efficiencyScore - a.efficiencyScore):
\* a stays before b unless b - a > 0
KeepsBefore(a, b) == ~RLt(a.efficiencyScore, b.efficiencyScore)

\* Array.prototype.sort is stable: an item moves in front of exactly the
\* items the comparator orders after it
RECURSIVE InsertRanked(_, _)
InsertRanked(sorted, x) ==
    IF sorted = <<>> THEN <<x>>
    ELSE IF KeepsBefore(sorted[Len(sorted)], x) THEN Append(sorted, x)
    ELSE Append(InsertRanked(SubSeq(sorted, 1, Len(sorted) - 1), x), sorted[Len(sorted)])

RECURSIVE SortRanked(_)
SortRanked(s) ==
    IF s = <<>> THEN <<>>
    ELSE InsertRanked(SortRanked(SubSeq(s, 1, Len(s) - 1)), s[Len(s)])

\* .map((ward, index) => ({...ward, rank: index + 1})) (799-802)
WithRanks(items) == [i \in 1..Len(items) |-> [items[i] EXCEPT !.rank = i]]

WardEfficiencyRanking(validWards) ==
    WithRanks(SortRanked([i \in 1..Len(validWards) |-> EfficiencyItem(validWards[i])]))

calculateWardAnalysis(svcs) ==
    LET validWards == ValidWards(svcs)
    IN  [validWards |-> validWards,
         invalidWard66 |-> InvalidWard66(svcs, validWards),
         wardEfficiencyRanking |-> WardEfficiencyRanking(validWards)]

(***************************************************************************)
(* Dates and text.  A date column holds a calendar day, modelled as its    *)
(* day number since 1970-01-01; "now" is some time of day on Today.        *)
(* A text column holds one of the labels below.                            *)
(***************************************************************************)
Today == 20000

\* setFullYear(+1) and setFullYear(-50), in days
OneYearDays == 365

FiftyYearsDays == 18263

DivisionLabels == {"Parks", "PARKS", "parks", "IT"}

NoteTexts == {"", "ok", "Inspection completed on site"}

\* String.prototype.toUpperCase / toLowerCase / length on the labels
ToUpperCase(str) == IF str \in {"Parks", "PARKS", "parks"} THEN "PARKS" ELSE str

ToLowerCase(str) == IF str \in {"Parks", "PARKS", "parks"} THEN "parks"
                    ELSE IF str = "IT" THEN "it" ELSE str

StrLength(str) == IF str \in {"Parks", "PARKS", "parks"} THEN 5
                  ELSE IF str \in {"IT", "it"} THEN 2 ELSE 0

\* notes.trim().length
TrimLength(str) == IF str = "ok" THEN 2
                   ELSE IF str = "Inspection completed on site" THEN 28 ELSE 0

HasDate(d) == d # NULL

\* date > oneYearFuture || date < fiftyYearsPast (208, 216)
OutsideWindow(d) == d > Today + OneYearDays \/ d <= Today - FiftyYearsDays

(***************************************************************************)
(* The five dimension calculators of the data-readiness endpoint           *)
(* (supabase.ts 186-439)                                                   *)
(***************************************************************************)
\* every failed check counted, without the early returns
AccuracyPenaltyEveryCheck(s) ==
    (IF s.ward # NULL /\ (s.ward < 1 \/ s.ward > 25) THEN 2 ELSE 0)
    + (IF HasDate(s.start_date) /\ OutsideWindow(s.start_date) THEN 2 ELSE 0)
    + (IF HasDate(s.end_date) /\ OutsideWindow(s.end_date) THEN 2 ELSE 0)
    + (IF HasDate(s.end_date) /\ HasDate(s.start_date) /\ s.end_date < s.start_date THEN 2 ELSE 0)
    + (IF s.estimated_cost # NULL /\ s.estimated_cost < 0 THEN 2 ELSE 0)
    + (IF Truthy(s.service_result) /\ s.service_result \notin {"PASS", "FAIL", "UNKNOWN"} THEN 2 ELSE 0)
    + (IF s.service_result = "UNKNOWN" THEN 1 ELSE 0)

\* what one record adds to invalidRecords, in halves: the forEach callback
\* returns at the first failed check (192-248)
AccuracyPenaltyHalves(s) ==
    IF s.ward # NULL /\ (s.ward < 1 \/ s.ward > 25) THEN 2
    ELSE IF HasDate(s.start_date) /\ OutsideWindow(s.start_date) THEN 2
    ELSE IF HasDate(s.end_date) /\ OutsideWindow(s.end_date) THEN 2
    ELSE IF HasDate(s.end_date) /\ HasDate(s.start_date) /\ s.end_date < s.start_date THEN 2
    ELSE IF s.estimated_cost # NULL /\ s.estimated_cost < 0 THEN 2
    ELSE IF Truthy(s.service_result) /\ s.service_result \notin {"PASS", "FAIL", "UNKNOWN"} THEN 2
    ELSE IF s.service_result = "UNKNOWN" THEN 1
    ELSE 0

calculateAccuracy(svcs) ==
    LET totalRecords == Len(svcs)
        invalidHalves == SumOf(svcs, AccuracyPenaltyHalves)
    IN  IF totalRecords = 0 THEN Num(100)
        ELSE RMul(Div(2 * totalRecords - invalidHalves, 2 * totalRecords), Num(100))

\* the callback of calculateConsistency: TRUE when the record is counted (260-303)
IsInconsistent(s) ==
    LET div  == s.service_division_owner
        cost == s.estimated_cost
    IN  \/ Truthy(s.service_result) /\ s.service_result # "UNKNOWN" /\ ~Truthy(div)
        \/ cost # NULL /\ cost > 0
             /\ (~Truthy(div) \/ ~HasDate(s.start_date) \/ ~HasDate(s.end_date))
        \/ s.service_result = "UNKNOWN" /\ cost # NULL /\ cost > 100000
        \/ Truthy(div) /\ ~(\/ Truthy(s.service_result)
                            \/ cost # NULL
                            \/ s.ward # NULL
                            \/ HasDate(s.start_date)
                            \/ HasDate(s.end_date))
        \/ Truthy(div) /\ StrLength(div) > 3
             /\ (div = ToUpperCase(div) \/ div = ToLowerCase(div))

calculateConsistency(svcs) ==
    LET totalRecords == Len(svcs)
    IN  IF totalRecords = 0 THEN Num(100)
        ELSE RMul(Div(totalRecords - Count(svcs, IsInconsistent), totalRecords), Num(100))

\* the service_result conditions left out
HasAllRequiredFieldsAnyResult(s) ==
    /\ Truthy(s.service_division_owner)
    /\ HasDate(s.start_date)
    /\ HasDate(s.end_date)
    /\ s.estimated_cost # NULL
    /\ s.ward # NULL

\* hasAllRequiredFields (318-327)
HasAllRequiredFields(s) ==
    /\ Truthy(s.service_division_owner)
    /\ HasDate(s.start_date)
    /\ HasDate(s.end_date)
    /\ s.estimated_cost # NULL
    /\ s.ward # NULL
    /\ Truthy(s.service_result)
    /\ s.service_result # "UNKNOWN"

calculateCompleteness(svcs) ==
    LET totalRecords == Len(svcs)
    IN  IF totalRecords = 0 THEN Num(100)
        ELSE RMul(Div(Count(svcs, HasAllRequiredFields), totalRecords), Num(100))

\* endDates.reduce((latest, date) => date > latest ? date : latest, new Date(0))
RECURSIVE MostRecentDay(_)
MostRecentDay(days) ==
    IF days = <<>> THEN 0
    ELSE LET latest == MostRecentDay(SubSeq(days, 1, Len(days) - 1))
         IN  IF days[Len(days)] > latest THEN days[Len(days)] ELSE latest

EndDays(svcs) ==
    LET dated == SelectSeq(svcs, LAMBDA s : HasDate(s.end_date))
    IN  [i \in 1..Len(dated) |-> dated[i].end_date]

\* Math.floor((now - mostRecentDate) / msPerDay)
DaysSinceUpdate(svcs) == Today - MostRecentDay(EndDays(svcs))

\* .sort((a, b) => a.end.getTime() - b.end.getTime()), stable
RECURSIVE InsertByEnd(_, _)
InsertByEnd(sorted, x) ==
    IF sorted = <<>> THEN <<x>>
    ELSE IF sorted[Len(sorted)].end <= x.end THEN Append(sorted, x)
    ELSE Append(InsertByEnd(SubSeq(sorted, 1, Len(sorted) - 1), x), sorted[Len(sorted)])

RECURSIVE SortByEnd(_)
SortByEnd(s) ==
    IF s = <<>> THEN <<>> ELSE InsertByEnd(SortByEnd(SubSeq(s, 1, Len(s) - 1)), s[Len(s)])

\* dateRanges (355-361)
DateRanges(svcs) ==
    LET both == SelectSeq(svcs, LAMBDA s : HasDate(s.start_date) /\ HasDate(s.end_date))
    IN  SortByEnd([i \in 1..Len(both) |-> [start |-> both[i].start_date, end |-> both[i].end_date]])

\* the gaps summed whatever their sign
TotalGapDaysSigned(ranges) ==
    SumSeq([i \in 1..(IF Len(ranges) = 0 THEN 0 ELSE Len(ranges) - 1) |->
               ranges[i + 1].start - ranges[i].end])

\* totalGapDays (364-370)
TotalGapDays(ranges) ==
    SumSeq([i \in 1..(IF Len(ranges) = 0 THEN 0 ELSE Len(ranges) - 1) |->
               IF ranges[i + 1].start - ranges[i].end > 0
               THEN ranges[i + 1].start - ranges[i].end ELSE 0])

RecencyScore(daysSinceUpdate) ==
    RMax(Num(0), RMin(Num(100), RMul(RSub(Num(1), Div(daysSinceUpdate, 365)), Num(100))))

CoverageScore(ranges) ==
    IF Len(ranges) > 1 THEN RMax(Num(0), RSub(Num(100), Div(TotalGapDays(ranges), 30)))
    ELSE Num(50)

calculateTimeliness(svcs) ==
    IF EndDays(svcs) = <<>> THEN Num(0)
    ELSE RAdd(RMul(RecencyScore(DaysSinceUpdate(svcs)), Div(6, 10)),
              RMul(CoverageScore(DateRanges(svcs)), Div(4, 10)))

\* fieldsWithData (390-406)
FieldsWithData(svcs) ==
    {f \in {"division", "result", "ward", "cost", "notes"} :
        \E i \in 1..Len(svcs) :
            \/ f = "division" /\ Truthy(svcs[i].service_division_owner)
            \/ f = "result" /\ Truthy(svcs[i].service_result)
            \/ f = "ward" /\ svcs[i].ward # NULL
            \/ f = "cost" /\ svcs[i].estimated_cost # NULL
            \/ f = "notes" /\ Truthy(svcs[i].notes)}

\* the key of the identifiability check (428)
RecordKey(s) == <<s.start_date, s.end_date, s.service_division_owner, s.ward>>

calculateMetadataQuality(svcs) ==
    LET totalRecords == Len(svcs)
        divisions == {svcs[i].service_division_owner : i \in
                         {k \in 1..Len(svcs) : Truthy(svcs[k].service_division_owner)}}
        wards == {svcs[i].ward : i \in {k \in 1..Len(svcs) : svcs[k].ward # NULL}}
        fieldDiversityScore == RMul(Div(Cardinality(FieldsWithData(svcs)), 6), Num(100))
        divisionDiversity ==
            RMin(Num(100),
                 RMul(RDiv(Num(Cardinality(divisions)), RMax(Num(1), Div(totalRecords, 100))),
                      Num(100)))
        wardDiversity == RMin(Num(100), RMul(Div(Cardinality(wards), 25), Num(100)))
        recordsWithNotes == Count(svcs, LAMBDA s : Truthy(s.notes) /\ TrimLength(s.notes) > 10)
        recordsWithAnyNotes == Count(svcs, LAMBDA s : Truthy(s.notes) /\ TrimLength(s.notes) > 0)
        notesScore == RAdd(RMul(Div(recordsWithAnyNotes, totalRecords), Num(30)),
                           RMul(Div(recordsWithNotes, totalRecords), Num(70)))
        duplicates == totalRecords - Cardinality({RecordKey(svcs[i]) : i \in 1..Len(svcs)})
        uniquenessScore == RMul(Div(totalRecords - duplicates, totalRecords), Num(100))
        quarter == Div(1, 4)
    IN  IF totalRecords = 0 THEN Num(100)
        ELSE RAdd(RAdd(RAdd(RMul(fieldDiversityScore, quarter),
                            RMul(RDiv(RAdd(divisionDiversity, wardDiversity), Num(2)), quarter)),
                       RMul(notesScore, quarter)),
                  RMul(uniquenessScore, quarter))


(***************************************************************************)
(* Data-readiness endpoint: calculateAuditAlignedDataQuality,              *)
(* calculateODRAReadinessMetrics (supabase.ts 442-651).                    *)
(* A dimension is [score, issues, recommendations]; the formatted          *)
(* `details` text and the counts inside message texts are left out.        *)
(***************************************************************************)
Dimension(score, issues, recommendations) ==
    [score |-> score, issues |-> issues, recommendations |-> recommendations]

\* the invalidDates filter (457-475)
HasInvalidDates(s) ==
    \/ HasDate(s.start_date) /\ OutsideWindow(s.start_date)
    \/ HasDate(s.end_date) /\ OutsideWindow(s.end_date)
    \/ HasDate(s.end_date) /\ HasDate(s.start_date) /\ s.end_date < s.start_date

\* the mean taken over four of the five scores
Mean5WithoutLast(a, b, c, d, e) == RDiv(RAdd(RAdd(RAdd(a, b), c), d), Num(4))

Mean5(a, b, c, d, e) == RDiv(RAdd(RAdd(RAdd(RAdd(a, b), c), d), e), Num(5))

calculateAuditAlignedDataQuality(svcs) ==
    LET accuracyScore     == calculateAccuracy(svcs)
        completenessScore == calculateCompleteness(svcs)
        timelinessScore   == calculateTimeliness(svcs)
        consistencyScore  == calculateConsistency(svcs)
        metadataScore     == calculateMetadataQuality(svcs)
        invalidWards  == Count(svcs, LAMBDA s : s.ward # NULL /\ (s.ward < 1 \/ s.ward > 25))
        invalidDates  == Count(svcs, HasInvalidDates)
        negativeCosts == Count(svcs, LAMBDA s : s.estimated_cost # NULL /\ s.estimated_cost < 0)
        daysSinceUpdate == DaysSinceUpdate(svcs)
    IN  [completeness |-> Dimension(completenessScore,
             IF RLt(completenessScore, Num(70))
             THEN <<"Many records have UNKNOWN service results",
                    "Missing cost data",
                    "Some records missing dates or ward information">>
             ELSE <<>>,
             IF RLt(completenessScore, Num(70))
             THEN <<"Convert UNKNOWN results to actual PASS/FAIL values",
                    "Populate all missing cost estimates",
                    "Ensure all records have complete date and location data">>
             ELSE <<"Continue efforts to maintain data completeness">>),
         accuracy |-> Dimension(accuracyScore,
             (IF invalidWards > 0 THEN <<"records with invalid ward numbers">> ELSE <<>>)
             \o (IF invalidDates > 0 THEN <<"records with invalid or illogical dates">> ELSE <<>>)
             \o (IF negativeCosts > 0 THEN <<"records with negative costs">> ELSE <<>>),
             IF RLt(accuracyScore, Num(95))
             THEN <<"Implement ward validation (1-25 only)",
                    "Add date range validation (50 years past to 1 year future)",
                    "Ensure costs are non-negative">>
             ELSE <<"Data accuracy meets standards">>),
         timeliness |-> Dimension(timelinessScore,
             IF daysSinceUpdate > 90
             THEN <<"Data freshness below acceptable threshold",
                    "Coverage gaps may exist in recent periods">>
             ELSE <<>>,
             IF daysSinceUpdate > 90
             THEN <<"Establish automated data refresh pipeline",
                    "Set target update frequency (e.g., monthly)",
                    "Monitor and alert on data staleness">>
             ELSE <<"Data timeliness is acceptable">>),
         consistency |-> Dimension(consistencyScore,
             IF RLt(consistencyScore, Num(90))
             THEN <<"Records with results missing division owners",
                    "Costs without associated dates or divisions",
                    "Inconsistent formatting in text fields">>
             ELSE <<>>,
             IF RLt(consistencyScore, Num(90))
             THEN <<"Enforce business rules at data entry",
                    "Standardize text field formatting",
                    "Implement cross-field validation">>
             ELSE <<"Data consistency is good">>),
         validity |-> Dimension(metadataScore,
             IF RLt(metadataScore, Num(80))
             THEN <<"Limited field diversity in dataset",
                    "Lack of descriptive notes for context",
                    "Potential duplicate records">>
             ELSE <<>>,
             IF RLt(metadataScore, Num(80))
             THEN <<"Add descriptive notes to provide context",
                    "Ensure all relevant fields are populated",
                    "Implement unique record identifiers">>
             ELSE <<"Metadata quality is acceptable">>),
         overallScore |-> Mean5(accuracyScore, completenessScore, timelinessScore,
                                consistencyScore, metadataScore)]

Recommendation(category, priority, issue) ==
    [category |-> category, priority |-> priority, issue |-> issue]

\* the recommendations of the Ward 66 rule alone
AuditRecommendationsWard66Only(ward66, stale) ==
    IF ward66 THEN <<Recommendation("data", "high", "Invalid ward numbers detected")>>
    ELSE <<>>

\* the recommendations.push of the two audit rules (583-605)
AuditRecommendations(ward66, stale) ==
    (IF ward66 THEN <<Recommendation("data", "high", "Invalid ward numbers detected")>>
     ELSE <<>>)
    \o (IF stale
        THEN <<Recommendation("operational", "high", "Data freshness below acceptable levels")>>
        ELSE <<>>)

calculateODRAReadinessMetrics(svcs, dq) ==
    LET finalAccuracy     == dq.accuracy.score
        finalCompleteness == dq.completeness.score
        finalTimeliness   == dq.timeliness.score
        finalConsistency  == dq.consistency.score
        finalMetadata     == dq.validity.score
        overallReadinessScore ==
            Mean5(finalAccuracy, finalConsistency, finalCompleteness, finalTimeliness,
                  finalMetadata)
        ward66 == Count(svcs, LAMBDA s : s.ward = 66) > 0
        stale  == RLt(dq.timeliness.score, Num(10))
    IN  [dataReadinessScore |-> overallReadinessScore,
         operationalReadinessScore |-> finalTimeliness,
         qualityReadinessScore |->
             RDiv(RAdd(RAdd(finalAccuracy, finalConsistency), finalCompleteness), Num(3)),
         overallReadinessScore |-> overallReadinessScore,
         breakdown |-> [dataCompleteness |-> finalCompleteness,
                        dataFreshness |-> finalTimeliness,
                        dataConsistency |-> finalConsistency,
                        operationalEfficiency |-> finalMetadata,
                        serviceReliability |-> finalAccuracy,
                        costManagement |-> finalMetadata,
                        qualityAssurance |-> finalAccuracy,
                        processMaturity |-> finalConsistency],
         recommendations |-> AuditRecommendations(ward66, stale),
         criticalIssues |->
             (IF ward66 THEN <<"records with invalid ward numbers (Ward 66 doesn't exist)">>
              ELSE <<>>)
             \o (IF stale THEN <<"Data staleness: dataset is significantly outdated">>
                 ELSE <<>>),
         strengths |->
             (IF RLt(Num(95), dq.accuracy.score) THEN <<"Excellent data accuracy">> ELSE <<>>)
             \o (IF RLt(Num(90), dq.completeness.score) THEN <<"High data completeness">> ELSE <<>>)
             \o (IF RLt(Num(90), dq.consistency.score) THEN <<"Strong data consistency">> ELSE <<>>)
             \o (IF RLt(Num(80), dq.validity.score) THEN <<"Good metadata quality">> ELSE <<>>),
         consolidatedDimensions |-> [accuracy |-> finalAccuracy,
                                     consistency |-> finalConsistency,
                                     completeness |-> finalCompleteness,
                                     timeliness |-> finalTimeliness,
                                     metadata |-> finalMetadata]]

\* getEmptyDataQuality of either endpoint (supabase.ts 712-728, dashboard 916-932)
getEmptyDataQuality(issue, recommendation) ==
    LET emptyDimension == Dimension(Num(0), <<issue>>, <<recommendation>>)
    IN  [completeness |-> emptyDimension,
         accuracy |-> emptyDimension,
         timeliness |-> emptyDimension,
         consistency |-> emptyDimension,
         validity |-> emptyDimension,
         overallScore |-> Num(0)]

\* getEmptyReadinessMetrics (supabase.ts 754-774, dashboard 958-978)
getEmptyReadinessMetrics ==
    [dataReadinessScore |-> Num(0),
     operationalReadinessScore |-> Num(0),
     qualityReadinessScore |-> Num(0),
     overallReadinessScore |-> Num(0),
     breakdown |-> [dataCompleteness |-> Num(0),
                    dataFreshness |-> Num(0),
                    dataConsistency |-> Num(0),
                    operationalEfficiency |-> Num(0),
                    serviceReliability |-> Num(0),
                    costManagement |-> Num(0),
                    qualityAssurance |-> Num(0),
                    processMaturity |-> Num(0)],
     recommendations |-> <<>>,
     criticalIssues |-> <<"No data available for analysis">>,
     strengths |-> <<>>]

\* getEmptyWardAnalysis (supabase.ts 730-752, dashboard 934-956)
getEmptyWardAnalysis ==
    [validWards |-> <<>>,
     invalidWard66 |-> [count |-> 0,
                        totalCost |-> 0,
                        avgCost |-> Num(0),
                        passRate |-> Num(0),
                        percentageOfTotalServices |-> Num(0),
                        percentageOfTotalCost |-> Num(0),
                        avgCostDifference |-> Num(0),
                        passRateDifference |-> Num(0)],
     wardEfficiencyRanking |-> <<>>]


(***************************************************************************)
(* Dashboard endpoint: calculateDataQualityMetrics (421-525) and           *)
(* calculateReadinessMetrics (813-913) of toronto-dashboard.ts             *)
(***************************************************************************)
\* s.ward is truthy: neither null nor 0
WardTruthy(s) == s.ward # NULL /\ s.ward # 0

\* the end date lies within the last 90 days (444-449)
IsRecent(s) == HasDate(s.end_date) /\ Today - s.end_date < 90

\* completenessMetrics (425-432): each is a count divided by totalServices
CompletenessMetrics(svcs) ==
    LET totalServices == Len(svcs)
    IN  <<[field |-> "startDate", v |-> Div(Count(svcs, LAMBDA s : HasDate(s.start_date)), totalServices)],
          [field |-> "endDate", v |-> Div(Count(svcs, LAMBDA s : HasDate(s.end_date)), totalServices)],
          [field |-> "division", v |-> Div(Count(svcs, LAMBDA s : Truthy(s.service_division_owner)), totalServices)],
          [field |-> "result", v |-> Div(Count(svcs, LAMBDA s : Truthy(s.service_result)), totalServices)],
          [field |-> "ward", v |-> Div(Count(svcs, LAMBDA s : s.ward # NULL), totalServices)],
          [field |-> "cost", v |-> Div(Count(svcs, LAMBDA s : s.estimated_cost # NULL), totalServices)]>>

CompletenessScore(svcs) ==
    LET cm == CompletenessMetrics(svcs)
    IN  RMul(RDiv(RSum([i \in 1..Len(cm) |-> cm[i].v]), Num(Len(cm))), Num(100))

AccuracyScore(svcs) ==
    LET validWards    == Count(svcs, LAMBDA s : WardTruthy(s) /\ s.ward >= 1 /\ s.ward <= 25)
        invalidWard66 == Count(svcs, LAMBDA s : s.ward = 66)
    IN  IF Len(svcs) > 0 THEN RMul(Div(validWards + invalidWard66, Len(svcs)), Num(100))
        ELSE Num(100)

TimelinessScore(svcs) ==
    IF Len(svcs) > 0 THEN RMul(Div(Count(svcs, IsRecent), Len(svcs)), Num(100)) ELSE Num(0)

ConsistencyScore(svcs) ==
    LET divisionWithResult ==
            Count(svcs, LAMBDA s : Truthy(s.service_division_owner) /\ Truthy(s.service_result))
    IN  IF Len(svcs) > 0 THEN RMul(Div(divisionWithResult, Len(svcs)), Num(100)) ELSE Num(100)

ValidityScore(svcs) ==
    LET validResults == Count(svcs, LAMBDA s : s.service_result \in {NULLSTR, "", "PASS", "FAIL"})
        validCosts   == Count(svcs, LAMBDA s : s.estimated_cost = NULL
                                   \/ (s.estimated_cost >= 0 /\ s.estimated_cost <= 10000000))
    IN  IF Len(svcs) > 0 THEN RMul(Div(validResults + validCosts, Len(svcs) * 2), Num(100))
        ELSE Num(100)

calculateDataQualityMetrics(svcs) ==
    LET completenessScore == CompletenessScore(svcs)
        accuracyScore     == AccuracyScore(svcs)
        timelinessScore   == TimelinessScore(svcs)
        consistencyScore  == ConsistencyScore(svcs)
        validityScore     == ValidityScore(svcs)
        cm                == CompletenessMetrics(svcs)
        low               == SelectSeq(cm, LAMBDA x : RLt(x.v, Div(9, 10)))
        invalidWard66     == Count(svcs, LAMBDA s : s.ward = 66)
        invalidWards      == Count(svcs, LAMBDA s : WardTruthy(s)
                                        /\ (s.ward < 1 \/ (s.ward > 25 /\ s.ward # 66)))
    IN  [completeness |-> Dimension(completenessScore,
             [i \in 1..Len(low) |-> low[i].field],
             IF RLt(completenessScore, Num(95))
             THEN <<"Implement data validation at entry point",
                    "Add required field constraints",
                    "Create data quality monitoring dashboard">>
             ELSE <<"Maintain current data entry standards">>),
         accuracy |-> Dimension(accuracyScore,
             (IF invalidWards > 0 THEN <<"services have invalid ward numbers">> ELSE <<>>)
             \o (IF invalidWard66 > 0 THEN <<"services assigned to non-existent Ward 66">> ELSE <<>>),
             IF invalidWards > 0 \/ invalidWard66 > 0
             THEN <<"Implement ward number validation",
                    "Create ward mapping reference table",
                    "Add data cleansing process for Ward 66 records">>
             ELSE <<"Ward data accuracy is excellent">>),
         timeliness |-> Dimension(timelinessScore,
             IF RLt(timelinessScore, Num(50))
             THEN <<"Data appears to be outdated", "Recent service data is sparse">>
             ELSE <<>>,
             IF RLt(timelinessScore, Num(80))
             THEN <<"Increase data collection frequency",
                    "Implement real-time data feeds",
                    "Create data freshness monitoring">>
             ELSE <<"Data timeliness is acceptable">>),
         consistency |-> Dimension(consistencyScore,
             IF RLt(consistencyScore, Num(90))
             THEN <<"Inconsistent data entry patterns", "Missing paired data fields">>
             ELSE <<>>,
             IF RLt(consistencyScore, Num(95))
             THEN <<"Standardize data entry workflows",
                    "Implement cross-field validation",
                    "Create data consistency rules">>
             ELSE <<"Data consistency is good">>),
         validity |-> Dimension(validityScore,
             IF RLt(validityScore, Num(95))
             THEN <<"Some data values outside expected ranges", "Invalid enum values detected">>
             ELSE <<>>,
             IF RLt(validityScore, Num(98))
             THEN <<"Add data type validation",
                    "Implement range checking",
                    "Create data dictionary with valid values">>
             ELSE <<"Data validity is excellent">>),
         overallScore |-> Mean5(completenessScore, accuracyScore, timelinessScore,
                                consistencyScore, validityScore)]

\* the sum of the three scores halved
Mean3Halved(a, b, c) == RDiv(RAdd(RAdd(a, b), c), Num(2))

Mean3(a, b, c) == RDiv(RAdd(RAdd(a, b), c), Num(3))

\* operationalEfficiency (824)
OperationalEfficiency(svcs) ==
    LET totalServices == Len(svcs)
        totalCost     == SumOf(svcs, CostOrZero)
        passCount     == Count(svcs, IsPass)
    IN  IF totalCost > 0
        THEN RMul(RDiv(Div(passCount, totalServices),
                       RDiv(RDiv(Num(totalCost), Num(totalServices)), Num(1000))),
                  Num(100))
        ELSE Num(0)

\* costManagement (826)
CostManagement(svcs) ==
    LET totalServices == Len(svcs)
        totalCost     == SumOf(svcs, CostOrZero)
    IN  IF totalServices > 10
        THEN RMin(Num(100),
                  RSub(Num(100),
                       RMul(RDiv(RAbs(RSub(Div(totalCost, totalServices), Num(50000))),
                                 Num(50000)),
                            Num(100))))
        ELSE Num(50)

calculateReadinessMetrics(svcs, dq) ==
    LET totalServices == Len(svcs)
        passCount     == Count(svcs, IsPass)
        dataCompleteness == dq.completeness.score
        dataFreshness    == dq.timeliness.score
        dataConsistency  == dq.consistency.score
        operationalEfficiency == OperationalEfficiency(svcs)
        serviceReliability ==
            IF totalServices > 0 THEN RMul(Div(passCount, totalServices), Num(100)) ELSE Num(0)
        costManagement   == CostManagement(svcs)
        qualityAssurance == dq.accuracy.score
        processMaturity  == RDiv(RAdd(dq.validity.score, dq.consistency.score), Num(2))
        dataReadinessScore == Mean3(dataCompleteness, dataFreshness, dataConsistency)
        operationalReadinessScore ==
            Mean3(operationalEfficiency, serviceReliability, costManagement)
        qualityReadinessScore == RDiv(RAdd(qualityAssurance, processMaturity), Num(2))
        incomplete == RLt(dataCompleteness, Num(90))
        unfresh    == RLt(dataFreshness, Num(70))
        unreliable == RLt(serviceReliability, Num(80))
        inaccurate == RLt(qualityAssurance, Num(95))
    IN  [dataReadinessScore |-> dataReadinessScore,
         operationalReadinessScore |-> operationalReadinessScore,
         qualityReadinessScore |-> qualityReadinessScore,
         overallReadinessScore |->
             Mean3(dataReadinessScore, operationalReadinessScore, qualityReadinessScore),
         breakdown |-> [dataCompleteness |-> dataCompleteness,
                        dataFreshness |-> dataFreshness,
                        dataConsistency |-> dataConsistency,
                        operationalEfficiency |-> operationalEfficiency,
                        serviceReliability |-> serviceReliability,
                        costManagement |-> costManagement,
                        qualityAssurance |-> qualityAssurance,
                        processMaturity |-> processMaturity],
         recommendations |->
             (IF incomplete
              THEN <<Recommendation("data", "high", "Data completeness below 90%")>> ELSE <<>>)
             \o (IF unfresh
                 THEN <<Recommendation("data", "medium", "Data freshness below acceptable levels")>>
                 ELSE <<>>)
             \o (IF unreliable
                 THEN <<Recommendation("operational", "high", "Service pass rate below 80%")>>
                 ELSE <<>>)
             \o (IF inaccurate
                 THEN <<Recommendation("quality", "medium", "Data accuracy could be improved")>>
                 ELSE <<>>),
         criticalIssues |->
             (IF incomplete THEN <<"Incomplete data records affecting analysis quality">>
              ELSE <<>>)
             \o (IF unreliable
                 THEN <<"Low service success rate indicating operational issues">> ELSE <<>>),
         strengths |->
             (IF incomplete THEN <<>> ELSE <<"Excellent data completeness standards">>)
             \o (IF ~unreliable /\ RLt(Num(90), serviceReliability)
                 THEN <<"Excellent service delivery performance">> ELSE <<>>)
             \o (IF inaccurate THEN <<>> ELSE <<"High data accuracy and quality standards">>)]


(***************************************************************************)
(* Month keys (lib/utils/dateUtils.ts) and the monthly series              *)
(* calculateEnhancedTimeSeriesData (toronto-dashboard.ts 527-589)          *)
(***************************************************************************)
\* a date column holding a string that new Date() cannot parse: the column
\* is truthy and its Date is an Invalid Date
BADDATE == -77777

\* date-fns format() raises RangeError("Invalid time value") on an Invalid Date
FormatThrows(d) == d = BADDATE

\* format(date, 'yyyy-MM') of a day number, as the number yyyymm: for years
\* of four digits the order of the strings is the order of these numbers
formatYearMonth(d) ==
    LET z   == d + 719468
        era == z \div 146097
        doe == z % 146097
        yoe == (doe - doe \div 1460 + doe \div 36524 - doe \div 146096) \div 365
        doy == doe - (365 * yoe + yoe \div 4 - yoe \div 100)
        mp  == (5 * doy + 2) \div 153
        m   == IF mp < 10 THEN mp + 3 ELSE mp - 9
        y   == yoe + era * 400 + (IF m <= 2 THEN 1 ELSE 0)
    IN  100 * y + m

\* the forEach of 530-553 (and of 186-206) raises on the first record whose
\* start_date is truthy and unparseable
GroupingThrows(svcs) ==
    \E i \in 1..Len(svcs) : HasDate(svcs[i].start_date) /\ FormatThrows(svcs[i].start_date)

\* a key per dated record, whether monthlyData has it or not
MonthKeysPerRecord(svcs) ==
    LET dated == SelectSeq(svcs, LAMBDA s : HasDate(s.start_date))
    IN  [i \in 1..Len(dated) |-> formatYearMonth(dated[i].start_date)]

\* the keys of monthlyData, in insertion order (530-546)
RECURSIVE MonthKeys(_)
MonthKeys(svcs) ==
    IF svcs = <<>> THEN <<>>
    ELSE LET front == MonthKeys(SubSeq(svcs, 1, Len(svcs) - 1))
             s     == svcs[Len(svcs)]
         IN  IF ~HasDate(s.start_date) THEN front
             ELSE IF \E i \in 1..Len(front) : front[i] = formatYearMonth(s.start_date)
                  THEN front
                  ELSE Append(front, formatYearMonth(s.start_date))

\* the entry of monthlyData under a key once every record is counted (536-552)
MonthTotals(svcs, monthKey) ==
    LET members == SelectSeq(svcs, LAMBDA s : HasDate(s.start_date) /\
                                              formatYearMonth(s.start_date) = monthKey)
        passCount == Count(members, IsPass)
        failCount == Count(members, IsFail)
    IN  [period |-> monthKey,
         totalServices |-> Len(members),
         totalCost |-> SumOf(members, CostOrZero),
         passCount |-> passCount,
         failCount |-> failCount,
         unknownCount |-> Count(members, LAMBDA s : ~IsPass(s) /\ ~IsFail(s))]

\* Array.from(monthlyData.values()).sort((a, b) => a.period.localeCompare(b.period))
SortedMonths(svcs) ==
    LET periods == SortAsc(MonthKeys(svcs))
    IN  [i \in 1..Len(periods) |-> MonthTotals(svcs, periods[i])]

PassRateOf(month) ==
    IF month.totalServices > 0
    THEN RMul(Div(month.passCount, month.totalServices), Num(100)) ELSE Num(0)

\* the change divided by the month's own value instead of the previous one
MomChangeOverCurrent(sortedData, index) ==
    LET month == sortedData[index]
    IN  IF index > 1
        THEN LET prevMonth == sortedData[index - 1]
             IN  [services |-> IF prevMonth.totalServices > 0
                               THEN RMul(Div(month.totalServices - prevMonth.totalServices,
                                             month.totalServices), Num(100))
                               ELSE Num(0),
                  cost |-> IF prevMonth.totalCost > 0
                           THEN RMul(Div(month.totalCost - prevMonth.totalCost,
                                         month.totalCost), Num(100))
                           ELSE Num(0),
                  passRate |-> IF prevMonth.passCount > 0
                               THEN RSub(PassRateOf(month), PassRateOf(prevMonth))
                               ELSE Num(0)]
        ELSE [services |-> Num(0), cost |-> Num(0), passRate |-> Num(0)]

\* momChange (562-567); index counts from 1
MomChange(sortedData, index) ==
    LET month == sortedData[index]
    IN  IF index > 1
        THEN LET prevMonth == sortedData[index - 1]
             IN  [services |-> IF prevMonth.totalServices > 0
                               THEN RMul(Div(month.totalServices - prevMonth.totalServices,
                                             prevMonth.totalServices), Num(100))
                               ELSE Num(0),
                  cost |-> IF prevMonth.totalCost > 0
                           THEN RMul(Div(month.totalCost - prevMonth.totalCost,
                                         prevMonth.totalCost), Num(100))
                           ELSE Num(0),
                  passRate |-> IF prevMonth.passCount > 0
                               THEN RSub(PassRateOf(month), PassRateOf(prevMonth))
                               ELSE Num(0)]
        ELSE [services |-> Num(0), cost |-> Num(0), passRate |-> Num(0)]

\* the pass rate taken as a fraction first, as for the wards
MonthCostEfficiencyOfFraction(passRate, avgCost) ==
    IF RLt(Num(0), avgCost)
    THEN RDiv(RDiv(passRate, Num(100)), RDiv(avgCost, Num(1000)))
    ELSE Num(0)

\* costEfficiency of a month (570): avgCost > 0 ? passRate / (avgCost / 1000) : 0
MonthCostEfficiency(passRate, avgCost) ==
    IF RLt(Num(0), avgCost)
    THEN RDiv(passRate, RDiv(avgCost, Num(1000)))
    ELSE Num(0)

calculateEnhancedTimeSeriesData(svcs) ==
    LET sortedData == SortedMonths(svcs)
    IN  [index \in 1..Len(sortedData) |->
            LET month   == sortedData[index]
                n       == month.totalServices
                avgCost == IF n > 0 THEN Div(month.totalCost, n) ELSE Num(0)
                rate(k) == IF n > 0 THEN RMul(Div(k, n), Num(100)) ELSE Num(0)
            IN  [period |-> month.period,
                 totalServices |-> n,
                 totalCost |-> month.totalCost,
                 avgCost |-> avgCost,
                 passCount |-> month.passCount,
                 failCount |-> month.failCount,
                 unknownCount |-> month.unknownCount,
                 passRate |-> rate(month.passCount),
                 failRate |-> rate(month.failCount),
                 unknownRate |-> rate(month.unknownCount),
                 momChange |-> MomChange(sortedData, index),
                 costEfficiency |-> MonthCostEfficiency(rate(month.passCount), avgCost)]]

(***************************************************************************)
(* calculateHighestExpenses (toronto-dashboard.ts 704-720)                 *)
(***************************************************************************)
\* .sort((a, b) => (b.estimated_cost || 0) - (a.estimated_cost || 0)), stable
RECURSIVE InsertByCostDesc(_, _)
InsertByCostDesc(sorted, x) ==
    IF sorted = <<>> THEN <<x>>
    ELSE IF CostOrZero(sorted[Len(sorted)]) >= CostOrZero(x) THEN Append(sorted, x)
    ELSE Append(InsertByCostDesc(SubSeq(sorted, 1, Len(sorted) - 1), x), sorted[Len(sorted)])

RECURSIVE SortByCostDesc(_)
SortByCostDesc(s) ==
    IF s = <<>> THEN <<>>
    ELSE InsertByCostDesc(SortByCostDesc(SubSeq(s, 1, Len(s) - 1)), s[Len(s)])

\* s.estimated_cost && s.estimated_cost > 0
HasPositiveCost(s) == s.estimated_cost # NULL /\ s.estimated_cost > 0

calculateHighestExpenses(svcs) ==
    LET sorted == SortByCostDesc(SelectSeq(svcs, HasPositiveCost))
        top    == SubSeq(sorted, 1, Min2(50, Len(sorted)))
    IN  [index \in 1..Len(top) |->
            [id |-> top[index].id,
             division |-> top[index].service_division_owner,
             ward |-> top[index].ward,
             cost |-> CostOrZero(top[index]),
             result |-> IF IsUnknown(top[index]) THEN "UNKNOWN" ELSE top[index].service_result,
             startDate |-> top[index].start_date,
             endDate |-> top[index].end_date,
             notes |-> top[index].notes,
             rank |-> index]]

(***************************************************************************)
(* State machine.  pc = "fetch" while the record list is being fetched;    *)
(* then one function is applied to it (pc = "done"), the calculators are   *)
(* called one by one (pc = "calculators"), or an endpoint handler answers  *)
(* (pc = "dashboard" or "data-readiness", with its HTTP status).           *)
(***************************************************************************)
NoQuality == getEmptyDataQuality("", "")

NoScores == [accuracy |-> Num(0), completeness |-> Num(0), consistency |-> Num(0),
             timeliness |-> Num(0), metadata |-> Num(0), dashboard |-> NoQuality]

(***************************************************************************)
(* The filters of the dashboard page (hooks/useTorontoFilters.ts): the     *)
(* hook's state and the query of the page's URL.                           *)
(***************************************************************************)
\* a parameter that the URL's query does not hold (undefined)
ABSENT == "undefined"

\* format(getDefaultStartDate(), 'yyyy-MM-dd') and
\* format(getDefaultEndDate(), 'yyyy-MM-dd'), the end of the current month
DefaultStartDate == "2000-01-14"

DefaultEndDate == "2024-10-31"

\* a || b on a query parameter: b when a is undefined or ''
OrElse(a, b) == IF a \in {ABSENT, ""} THEN b ELSE a

Query(start, end, division, ward, result) ==
    [start |-> start, end |-> end, division |-> division, ward |-> ward, result |-> result]

EmptyQuery == Query(ABSENT, ABSENT, ABSENT, ABSENT, ABSENT)

getInitialFilters(q) ==
    [startDate |-> OrElse(q.start, DefaultStartDate),
     endDate |-> OrElse(q.end, DefaultEndDate),
     serviceDivisionOwner |-> OrElse(q.division, "all"),
     ward |-> OrElse(q.ward, "all"),
     serviceResult |-> OrElse(q.result, "all")]

\* useState(getInitialFilters), useState(false), useRef(false) on the first
\* render, when router.query is still empty
InitHook ==
    /\ filters = getInitialFilters(EmptyQuery)
    /\ query = EmptyQuery
    /\ isUserAction = FALSE
    /\ isReady = FALSE
    /\ routerIsReady = FALSE
    /\ syncPending = FALSE

InitCommon ==
    /\ services = <<>>
    /\ dbError = FALSE
    /\ pc = "fetch"
    /\ status = 0
    /\ costDistribution = <<>>
    /\ wardAnalysis = getEmptyWardAnalysis
    /\ dataQuality = NoQuality
    /\ readinessMetrics = getEmptyReadinessMetrics
    /\ direct = NoScores
    /\ timeSeries = <<>>
    /\ highestExpenses = <<>>
    /\ ran = {}
    /\ InitHook

(***************************************************************************)
(* Specification of the cost histogram: records that differ in their cost  *)
(* are fetched one by one, then the binner runs over the list.             *)
(***************************************************************************)
CostValues == {NULL, 0, 1, 2, 7, 150}

FetchCostRecord ==
    /\ pc = "fetch"
    /\ Len(services) < MaxCostLen
    /\ \E c \in CostValues :
          services' = Append(services,
              ServiceResult(Len(services) + 1, NULL, NULL, NULLSTR, NULLSTR, NULL, c, NULLSTR))
    /\ UNCHANGED <<dbError, pc, status, costDistribution, wardAnalysis, dataQuality, readinessMetrics,
                   direct, timeSeries, highestExpenses, ran, hookVars>>

CostDistribution ==
    /\ pc = "fetch"
    /\ costDistribution' = calculateCostDistribution(services)
    /\ pc' = "done"
    /\ UNCHANGED <<services, dbError, status, wardAnalysis, dataQuality, readinessMetrics, direct,
                   timeSeries, highestExpenses, ran, hookVars>>

NextCost == FetchCostRecord \/ CostDistribution

SpecCost == InitCommon /\ [][NextCost]_vars

(***************************************************************************)
(* Specification of the ward analysis: records that differ in ward, result *)
(* and cost are fetched one by one, then calculateWardAnalysis runs.       *)
(***************************************************************************)
WardValues == {NULL, 1, 2, 3, 30, 66}

\* <<service_result, estimated_cost>> of the fetched records
WardProfiles == {<<"PASS", 1000>>, <<"PASS", 2000>>, <<"FAIL", -500>>}

FetchWardRecord ==
    /\ pc = "fetch"
    /\ Len(services) < MaxWardLen
    /\ \E w \in WardValues, p \in WardProfiles :
          services' = Append(services,
              ServiceResult(Len(services) + 1, NULL, NULL, NULLSTR, p[1], w, p[2], NULLSTR))
    /\ UNCHANGED <<dbError, pc, status, costDistribution, wardAnalysis, dataQuality, readinessMetrics,
                   direct, timeSeries, highestExpenses, ran, hookVars>>

WardAnalysis ==
    /\ pc = "fetch"
    /\ services # <<>>
    /\ wardAnalysis' = calculateWardAnalysis(services)
    /\ pc' = "done"
    /\ UNCHANGED <<services, dbError, status, costDistribution, dataQuality, readinessMetrics, direct,
                   timeSeries, highestExpenses, ran, hookVars>>

NextWard == FetchWardRecord \/ WardAnalysis

SpecWard == InitCommon /\ [][NextWard]_vars

(***************************************************************************)
(* Specification of the two endpoints and of the dimension calculators:    *)
(* the fetched records combine a ward/cost pair, a result/division/notes   *)
(* triple and a start/end date pair.                                       *)
(***************************************************************************)
QualWardCost == {<<5, 10>>, <<66, -10>>, <<NULL, NULL>>}

QualText == {<<"PASS", "Parks", "Inspection completed on site">>,
             <<NULLSTR, NULLSTR, NULLSTR>>,
             <<"N/A", "PARKS", "ok">>,
             <<"UNKNOWN", "IT", "">>}

QualDates == {<<NULL, NULL>>, <<Today - 40, Today - 10>>, <<Today - 10, Today - 400>>}

FetchRecord ==
    /\ pc = "fetch"
    /\ ~dbError
    /\ Len(services) < MaxQualLen
    /\ \E wc \in QualWardCost, tx \in QualText, dt \in QualDates :
          services' = Append(services,
              ServiceResult(Len(services) + 1, dt[1], dt[2], tx[2], tx[1], wc[1], wc[2], tx[3]))
    /\ UNCHANGED <<dbError, pc, status, costDistribution, wardAnalysis, dataQuality, readinessMetrics,
                   direct, timeSeries, highestExpenses, ran, hookVars>>

\* the query returns { data: null, error } instead of records
QueryFails ==
    /\ pc = "fetch"
    /\ services = <<>>
    /\ ~dbError
    /\ dbError' = TRUE
    /\ UNCHANGED <<services, pc, status, costDistribution, wardAnalysis, dataQuality,
                   readinessMetrics, direct, timeSeries, highestExpenses, ran, hookVars>>

\* the calculators run without the empty-list guard
DashboardResponseUnguarded(svcs) ==
    LET dq == calculateDataQualityMetrics(svcs)
    IN  [threw |-> GroupingThrows(svcs),
         dataQuality |-> dq,
         timeSeries |-> calculateEnhancedTimeSeriesData(svcs),
         costDistribution |-> calculateCostDistribution(svcs),
         highestExpenses |-> calculateHighestExpenses(svcs),
         wardAnalysis |-> calculateWardAnalysis(svcs),
         readinessMetrics |-> calculateReadinessMetrics(svcs, dq)]

\* what the dashboard handler computes from the fetched records: the empty
\* structures when there is none (114-159), the calculators otherwise (345-363)
DashboardResponse(svcs) ==
    IF svcs = <<>>
    THEN [threw |-> FALSE,
          dataQuality |-> getEmptyDataQuality("No services found in date range",
                                              "Expand date range or check data source"),
          timeSeries |-> <<>>,
          highestExpenses |-> <<>>,
          costDistribution |-> <<>>,
          wardAnalysis |-> getEmptyWardAnalysis,
          readinessMetrics |-> getEmptyReadinessMetrics]
    ELSE LET dq == calculateDataQualityMetrics(svcs)
         IN  [threw |-> GroupingThrows(svcs),
              dataQuality |-> dq,
              timeSeries |-> calculateEnhancedTimeSeriesData(svcs),
              costDistribution |-> calculateCostDistribution(svcs),
              highestExpenses |-> calculateHighestExpenses(svcs),
              wardAnalysis |-> calculateWardAnalysis(svcs),
              readinessMetrics |-> calculateReadinessMetrics(svcs, dq)]

\* what the data-readiness handler computes (supabase.ts 49-94, 119-160)
DataReadinessResponse(svcs) ==
    IF svcs = <<>>
    THEN [threw |-> FALSE,
          dataQuality |-> getEmptyDataQuality("No services found", "Check data source"),
          timeSeries |-> <<>>,
          highestExpenses |-> <<>>,
          costDistribution |-> <<>>,
          wardAnalysis |-> getEmptyWardAnalysis,
          readinessMetrics |-> getEmptyReadinessMetrics]
    ELSE LET dq == calculateAuditAlignedDataQuality(svcs)
         IN  [threw |-> FALSE,
              dataQuality |-> dq,
              timeSeries |-> <<>>,
              highestExpenses |-> <<>>,
              costDistribution |-> <<>>,
              wardAnalysis |-> getEmptyWardAnalysis,
              readinessMetrics |-> calculateODRAReadinessMetrics(svcs, dq)]

\* res.status(...).json(...): 500 on a query error (109-112) and on an
\* exception, which the handler's catch answers (413-416); 200 with the
\* data otherwise
Respond(endpoint, response) ==
    /\ pc = "fetch"
    /\ pc' = endpoint
    /\ IF dbError \/ response.threw
       THEN /\ status' = 500
            /\ UNCHANGED <<costDistribution, wardAnalysis, dataQuality, readinessMetrics,
                           timeSeries, highestExpenses>>
       ELSE /\ status' = 200
            /\ dataQuality' = response.dataQuality
            /\ timeSeries' = response.timeSeries
            /\ costDistribution' = response.costDistribution
            /\ highestExpenses' = response.highestExpenses
            /\ wardAnalysis' = response.wardAnalysis
            /\ readinessMetrics' = response.readinessMetrics
    /\ UNCHANGED <<services, dbError, direct, ran, hookVars>>

\* handler of pages/api/toronto-dashboard.ts
DashboardHandler == Respond("dashboard", DashboardResponse(services))

\* handler of the data-readiness endpoint (supabase.ts 30-183)
DataReadinessHandler == Respond("data-readiness", DataReadinessResponse(services))

\* each dimension calculator applied to the record list as it is
CallCalculators ==
    /\ pc = "fetch"
    /\ pc' = "calculators"
    /\ direct' = [accuracy     |-> calculateAccuracy(services),
                  completeness |-> calculateCompleteness(services),
                  consistency  |-> calculateConsistency(services),
                  timeliness   |-> calculateTimeliness(services),
                  metadata     |-> calculateMetadataQuality(services),
                  dashboard    |-> calculateDataQualityMetrics(services)]
    /\ UNCHANGED <<services, dbError, status, costDistribution, wardAnalysis, dataQuality,
                   readinessMetrics, timeSeries, highestExpenses, ran, hookVars>>

NextQuality ==
    \/ FetchRecord
    \/ QueryFails
    \/ DashboardHandler
    \/ DataReadinessHandler
    \/ CallCalculators

SpecQuality == InitCommon /\ [][NextQuality]_vars

(***************************************************************************)
(* Specification of the monthly series: the fetched records differ in      *)
(* their start_date (absent, unparseable, or a day of one of three months) *)
(* and in their result and cost; the dashboard handler answers.            *)
(***************************************************************************)
SeriesDates == {NULL, BADDATE, Today - 40, Today - 10, Today}

\* <<service_result, estimated_cost>> of the fetched records
SeriesProfiles == {<<"PASS", 10>>, <<"FAIL", 20>>, <<NULLSTR, -30>>}

FetchSeriesRecord ==
    /\ pc = "fetch"
    /\ ~dbError
    /\ Len(services) < MaxSeriesLen
    /\ \E sd \in SeriesDates, p \in SeriesProfiles :
          services' = Append(services,
              ServiceResult(Len(services) + 1, sd, NULL, "Parks", p[1], 5, p[2], NULLSTR))
    /\ UNCHANGED <<dbError, pc, status, costDistribution, wardAnalysis, dataQuality, readinessMetrics,
                   direct, timeSeries, highestExpenses, ran, hookVars>>

NextSeries ==
    \/ FetchSeriesRecord
    \/ QueryFails
    \/ DashboardHandler

SpecSeries == InitCommon /\ [][NextSeries]_vars

(***************************************************************************)
(* Specification of the calculators as the handler calls them (345-363),   *)
(* here in any order over the same array: each call leaves in `services`   *)
(* what the function's array methods leave in the array it was given.      *)
(***************************************************************************)
Calculators == {"calculateDataQualityMetrics", "calculateEnhancedTimeSeriesData",
                "calculateCostDistribution", "calculateHighestExpenses",
                "calculateWardAnalysis", "calculateReadinessMetrics"}

\* the arrays a function works on: the one it was given, and the one that
\* its last .map(), .filter() or Array.from() returned
Arrays(svcs) == [given |-> svcs, fresh |-> <<>>]

\* receiver.map(f) and receiver.filter(P) return a new array and leave the
\* receiver alone
ArrayMap(arrays, receiver, f(_)) ==
    [arrays EXCEPT !.fresh = [i \in 1..Len(arrays[receiver]) |-> f(arrays[receiver][i])]]

ArrayFilter(arrays, receiver, P(_)) ==
    [arrays EXCEPT !.fresh = SelectSeq(arrays[receiver], P)]

\* receiver.sort(compare) reorders the receiver itself
ArraySortAsc(arrays, receiver) ==
    [arrays EXCEPT ![receiver] = SortAsc(arrays[receiver])]

ArraySortByCostDesc(arrays, receiver) ==
    [arrays EXCEPT ![receiver] = SortByCostDesc(arrays[receiver])]

\* calculateHighestExpenses calling services.sort(...) without the .filter(...)
\* in front
ServicesAfterSortInPlace(fn, svcs) ==
    IF fn = "calculateHighestExpenses"
    THEN ArraySortByCostDesc(Arrays(svcs), "given").given
    ELSE svcs

\* the array a function was given, after the call.  calculateCostDistribution
\* sorts the result of services.map(...).filter(...) (592-595) and
\* calculateHighestExpenses the result of services.filter(...) (705-707); the
\* other functions read the array with filter, map, reduce and forEach and
\* sort only arrays they built (555, 783-798); no callback assigns to a
\* field of a record
ServicesAfter(fn, svcs) ==
    CASE fn = "calculateCostDistribution" ->
             ArraySortAsc(
                 ArrayFilter(ArrayMap(Arrays(svcs), "given", CostOrZero),
                             "fresh", LAMBDA cost : cost > 0),
                 "fresh").given
      [] fn = "calculateHighestExpenses" ->
             ArraySortByCostDesc(ArrayFilter(Arrays(svcs), "given", HasPositiveCost),
                                 "fresh").given
      [] OTHER -> svcs

\* <<start_date, estimated_cost>> of the fetched records
PureProfiles == {<<Today - 40, 10>>, <<Today - 40, 20>>, <<Today, 10>>, <<Today, 20>>}

FetchPureRecord ==
    /\ pc = "fetch"
    /\ Len(services) < MaxPureLen
    /\ \E p \in PureProfiles :
          services' = Append(services,
              ServiceResult(Len(services) + 1, p[1], Today, "Parks", "PASS", 5, p[2], NULLSTR))
    /\ UNCHANGED <<dbError, pc, status, costDistribution, wardAnalysis, dataQuality, readinessMetrics,
                   direct, timeSeries, highestExpenses, ran, hookVars>>

\* one of the calls of 345-363 is made
Call(fn) ==
    /\ pc \in {"fetch", "calculating"}
    /\ services # <<>>
    /\ fn \notin ran
    /\ ran' = ran \cup {fn}
    /\ pc' = "calculating"
    /\ services' = ServicesAfter(fn, services)
    /\ UNCHANGED <<dbError, status, direct, hookVars>>

CallDataQuality ==
    /\ Call("calculateDataQualityMetrics")
    /\ dataQuality' = calculateDataQualityMetrics(services)
    /\ UNCHANGED <<timeSeries, costDistribution, highestExpenses, wardAnalysis, readinessMetrics>>

CallTimeSeries ==
    /\ Call("calculateEnhancedTimeSeriesData")
    /\ timeSeries' = calculateEnhancedTimeSeriesData(services)
    /\ UNCHANGED <<dataQuality, costDistribution, highestExpenses, wardAnalysis, readinessMetrics>>

CallCostDistribution ==
    /\ Call("calculateCostDistribution")
    /\ costDistribution' = calculateCostDistribution(services)
    /\ UNCHANGED <<dataQuality, timeSeries, highestExpenses, wardAnalysis, readinessMetrics>>

CallHighestExpenses ==
    /\ Call("calculateHighestExpenses")
    /\ highestExpenses' = calculateHighestExpenses(services)
    /\ UNCHANGED <<dataQuality, timeSeries, costDistribution, wardAnalysis, readinessMetrics>>

CallWardAnalysis ==
    /\ Call("calculateWardAnalysis")
    /\ wardAnalysis' = calculateWardAnalysis(services)
    /\ UNCHANGED <<dataQuality, timeSeries, costDistribution, highestExpenses, readinessMetrics>>

\* calculateReadinessMetrics(services, dataQuality), dataQuality being the
\* result of calculateDataQualityMetrics on the array as it is now
CallReadinessMetrics ==
    /\ Call("calculateReadinessMetrics")
    /\ readinessMetrics' =
           calculateReadinessMetrics(services, calculateDataQualityMetrics(services))
    /\ UNCHANGED <<dataQuality, timeSeries, costDistribution, highestExpenses, wardAnalysis>>

NextPure ==
    \/ FetchPureRecord
    \/ CallDataQuality
    \/ CallTimeSeries
    \/ CallCostDistribution
    \/ CallHighestExpenses
    \/ CallWardAnalysis
    \/ CallReadinessMetrics

SpecPure == InitCommon /\ [][NextPure]_vars

(***************************************************************************)
(* Specification of the consistency rules: the fetched records combine a   *)
(* present, absent or UNKNOWN result, a cost at or above the 100000        *)
(* threshold, a division label of more than three characters or none, and  *)
(* both dates or none; then the calculators are called.                    *)
(***************************************************************************)
RulesResults == {"PASS", NULLSTR, "UNKNOWN"}

RulesCosts == {100000, 200000}

RulesDivisions == {"Parks", "PARKS", NULLSTR}

RulesDates == {<<NULL, NULL>>, <<Today - 40, Today - 10>>}

FetchRulesRecord ==
    /\ pc = "fetch"
    /\ Len(services) < MaxRulesLen
    /\ \E r \in RulesResults, c \in RulesCosts, dv \in RulesDivisions, dt \in RulesDates :
          services' = Append(services,
              ServiceResult(Len(services) + 1, dt[1], dt[2], dv, r, 5, c, NULLSTR))
    /\ UNCHANGED <<dbError, pc, status, costDistribution, wardAnalysis, dataQuality, readinessMetrics,
                   direct, timeSeries, highestExpenses, ran, hookVars>>

NextRules == FetchRulesRecord \/ CallCalculators

SpecRules == InitCommon /\ [][NextRules]_vars

(***************************************************************************)
(* Specification of the coverage gaps: the fetched records carry both      *)
(* dates, or only an end_date, as <<start_date, end_date>> intervals that   *)
(* nest, touch, overlap or lie apart.                                      *)
(***************************************************************************)
CoverDates == {<<Today - 100, Today>>,
               <<Today - 90, Today - 80>>,
               <<Today - 80, Today - 60>>,
               <<Today - 50, Today - 40>>,
               <<NULL, Today - 20>>}

FetchCoverRecord ==
    /\ pc = "fetch"
    /\ Len(services) < MaxCoverLen
    /\ \E dt \in CoverDates :
          services' = Append(services,
              ServiceResult(Len(services) + 1, dt[1], dt[2], "Parks", "PASS", 5, 10, NULLSTR))
    /\ UNCHANGED <<dbError, pc, status, costDistribution, wardAnalysis, dataQuality, readinessMetrics,
                   direct, timeSeries, highestExpenses, ran, hookVars>>

NextCover == FetchCoverRecord \/ CallCalculators

SpecCover == InitCommon /\ [][NextCover]_vars

(***************************************************************************)
(* Specification of the filters hook: the router becomes ready with the    *)
(* query of the URL the page was opened with, the hook initializes, and    *)
(* then the user changes filters or the URL changes from outside; the      *)
(* URL-sync effect runs after every change of router.query.                *)
(***************************************************************************)
DateInputs == {"", "2024-03-01"}

DivisionInputs == {"all", "", "Parks"}

WardInputs == {"all", "5"}

ResultInputs == {"all", "", "PASS"}

FilterKeys == {"startDate", "endDate", "serviceDivisionOwner", "ward", "serviceResult"}

InputsOf(key) ==
    CASE key \in {"startDate", "endDate"} -> DateInputs
      [] key = "serviceDivisionOwner" -> DivisionInputs
      [] key = "ward" -> WardInputs
      [] key = "serviceResult" -> ResultInputs

\* the queries of the URLs the page is opened with or navigated to
UrlQueries ==
    {EmptyQuery,
     Query("2024-03-01", ABSENT, ABSENT, ABSENT, "PASS"),
     Query("2024-03-01", "2024-03-01", "Parks", "5", ABSENT)}

\* router.isReady turns true and router.query holds the URL's parameters
RouterBecomesReady ==
    /\ ~routerIsReady
    /\ routerIsReady' = TRUE
    /\ \E q \in UrlQueries : query' = q
    /\ UNCHANGED <<filters, isUserAction, isReady, syncPending, dataVars>>

\* the initialization effect (27-54): the filters of the URL, the default
\* dates written to the URL when it lacks one of them (router.replace)
InitializeFilters ==
    /\ routerIsReady
    /\ ~isReady
    /\ LET initialFilters == getInitialFilters(query)
           needsUrlUpdate == query.start \in {ABSENT, ""} \/ query.end \in {ABSENT, ""}
       IN  /\ filters' = initialFilters
           /\ query' = IF needsUrlUpdate
                       THEN Query(initialFilters.startDate, initialFilters.endDate,
                                  IF initialFilters.serviceDivisionOwner # "all"
                                  THEN initialFilters.serviceDivisionOwner ELSE query.division,
                                  IF initialFilters.ward # "all"
                                  THEN initialFilters.ward ELSE query.ward,
                                  IF initialFilters.serviceResult # "all"
                                  THEN initialFilters.serviceResult ELSE query.result)
                       ELSE query
    /\ isReady' = TRUE
    /\ syncPending' = TRUE
    /\ UNCHANGED <<isUserAction, routerIsReady, dataVars>>

\* the URL-sync effect (57-68)
SyncEffect ==
    /\ syncPending
    /\ syncPending' = FALSE
    /\ IF ~routerIsReady \/ ~isReady \/ isUserAction
       THEN /\ isUserAction' = FALSE
            /\ UNCHANGED filters
       ELSE /\ filters' = getInitialFilters(query)
            /\ UNCHANGED isUserAction
    /\ UNCHANGED <<query, isReady, routerIsReady, dataVars>>

\* value when it is to be written to the URL, ABSENT when the parameter is
\* deleted
Param(value, keepAll) == IF value = "" \/ (~keepAll /\ value = "all") THEN ABSENT ELSE value

\* updateFilter(key, value) (71-110)
updateFilter(key, value) ==
    /\ isReady
    /\ ~syncPending
    /\ isUserAction' = TRUE
    /\ filters' = [filters EXCEPT ![key] = value]
    /\ query' = CASE key = "startDate" -> [query EXCEPT !.start = Param(value, TRUE)]
                  [] key = "endDate" -> [query EXCEPT !.end = Param(value, TRUE)]
                  [] key = "serviceDivisionOwner" -> [query EXCEPT !.division = Param(value, FALSE)]
                  [] key = "ward" -> [query EXCEPT !.ward = Param(value, FALSE)]
                  [] key = "serviceResult" -> [query EXCEPT !.result = Param(value, FALSE)]
    /\ syncPending' = TRUE
    /\ UNCHANGED <<isReady, routerIsReady, dataVars>>

UpdateFilter == \E key \in FilterKeys : \E value \in InputsOf(key) : updateFilter(key, value)

\* updateDateRange(startDate, endDate) (113-128)
updateDateRange(startDate, endDate) ==
    /\ isReady
    /\ ~syncPending
    /\ isUserAction' = TRUE
    /\ filters' = [filters EXCEPT !.startDate = startDate, !.endDate = endDate]
    /\ query' = [query EXCEPT !.start = Param(startDate, TRUE), !.end = Param(endDate, TRUE)]
    /\ syncPending' = TRUE
    /\ UNCHANGED <<isReady, routerIsReady, dataVars>>

UpdateDateRange == \E startDate \in DateInputs, endDate \in DateInputs : updateDateRange(startDate, endDate)

\* resetFilters() (131-151)
resetFilters ==
    /\ isReady
    /\ ~syncPending
    /\ isUserAction' = TRUE
    /\ filters' = [startDate |-> DefaultStartDate,
                   endDate |-> DefaultEndDate,
                   serviceDivisionOwner |-> "all",
                   ward |-> "all",
                   serviceResult |-> "all"]
    /\ query' = Query(DefaultStartDate, DefaultEndDate, ABSENT, ABSENT, ABSENT)
    /\ syncPending' = TRUE
    /\ UNCHANGED <<isReady, routerIsReady, dataVars>>

\* the URL changes without the hook (back, forward, a link)
ExternalUrlChange ==
    /\ isReady
    /\ ~syncPending
    /\ \E q \in UrlQueries : query' = q
    /\ syncPending' = TRUE
    /\ UNCHANGED <<filters, isUserAction, isReady, routerIsReady, dataVars>>

NextFilters ==
    \/ RouterBecomesReady
    \/ InitializeFilters
    \/ SyncEffect
    \/ UpdateFilter
    \/ UpdateDateRange
    \/ resetFilters
    \/ ExternalUrlChange

SpecFilters == InitCommon /\ [][NextFilters]_vars

(***************************************************************************)
(* Claims about the cost histogram                                         *)
(***************************************************************************)
BinCountSum(bins) == SumSeq([j \in 1..Len(bins) |-> bins[j].count])

BinPercentageSum(bins) == RSum([j \in 1..Len(bins) |-> bins[j].percentage])

\* C1: when the binner has run over a list with at least one positive
\* cost, the counts of the emitted bins add up to the number of records with
\* a positive cost and their percentages add up to 100.
C1_CountsSumToPopulation ==
    (pc = "done" /\ PositiveCosts(services) # <<>>) =>
        /\ BinCountSum(costDistribution) = Len(PositiveCosts(services))
        /\ BinPercentageSum(costDistribution) = Num(100)

\* C2: when the binner has run, every record with a positive cost
\* satisfies the membership test of exactly one emitted bin.
C2_EachCostInExactlyOneBin ==
    pc = "done" =>
        \A i \in 1..Len(services) :
            CostOrZero(services[i]) > 0 =>
                Cardinality({j \in 1..Len(costDistribution) :
                    InBin(CostOrZero(services[i]), costDistribution[j])}) = 1

(***************************************************************************)
(* Claims about the ward analysis                                          *)
(***************************************************************************)
OutOfDomainWard(s) == s.ward # NULL /\ (s.ward < 1 \/ s.ward > ValidWardCount)

\* C3: after calculateWardAnalysis, no record with an out-of-domain ward
\* is part of a validWards entry, and invalidWard66.count is the number of
\* records with an out-of-domain ward.
C3_OutOfDomainWardsAccounted ==
    pc = "done" =>
        /\ \A i \in 1..Len(wardAnalysis.validWards) :
               wardAnalysis.validWards[i].ward \in 1..ValidWardCount
        /\ wardAnalysis.invalidWard66.count = Count(services, OutOfDomainWard)

Ranking == wardAnalysis.wardEfficiencyRanking

\* costEfficiency of the validWards entry of ward w
CostEfficiencyOf(w) ==
    LET i == CHOOSE k \in 1..Len(wardAnalysis.validWards) : wardAnalysis.validWards[k].ward = w
    IN  wardAnalysis.validWards[i].costEfficiency

InRange(x) == RLe(Num(0), x) /\ RLe(x, Num(100))

FiveScores(dq) == <<dq.completeness.score, dq.accuracy.score, dq.timeliness.score,
                    dq.consistency.score, dq.validity.score>>

AllInRange(scores) == \A i \in 1..Len(scores) : InRange(scores[i])

MeanOf(scores) == RDiv(RSum(scores), Num(Len(scores)))

Answered(endpoint) == pc = endpoint /\ status = 200

\* C5: for a non-empty record list each of the five dimension scores is
\* within [0, 100], those of the five data-readiness calculators and those of
\* the dashboard's calculateDataQualityMetrics, called directly or by a handler.
C5_DimensionScoresInRange ==
    services # <<>> =>
        /\ pc = "calculators" =>
               /\ AllInRange(<<direct.accuracy, direct.completeness, direct.consistency,
                               direct.timeliness, direct.metadata>>)
               /\ AllInRange(FiveScores(direct.dashboard))
        /\ (Answered("dashboard") \/ Answered("data-readiness")) =>
               AllInRange(FiveScores(dataQuality))

\* a record fails the ward, date and cost checks at once and accuracy is 0
C5_Witness ==
    /\ pc = "calculators"
    /\ Len(services) = 2
    /\ \E i \in 1..2 : /\ services[i].ward = 66
                       /\ services[i].estimated_cost < 0
                       /\ services[i].estimated_cost # NULL
                       /\ HasInvalidDates(services[i])
                       /\ services[i].service_result = "N/A"
    /\ direct.accuracy = Num(0)
    /\ RLt(Num(0), direct.dashboard.accuracy.score)

\* C6: the data-readiness endpoint, for a non-empty record list, returns
\* overallScore and overallReadinessScore both equal to the mean of the five
\* dimension scores of the same response, the metadata score being the one
\* in the validity slot and in consolidatedDimensions.metadata.
C6_OverallIsMeanOfFive ==
    (Answered("data-readiness") /\ services # <<>>) =>
        /\ dataQuality.overallScore = MeanOf(FiveScores(dataQuality))
        /\ readinessMetrics.overallReadinessScore = MeanOf(FiveScores(dataQuality))
        /\ readinessMetrics.consolidatedDimensions =
               [accuracy     |-> dataQuality.accuracy.score,
                consistency  |-> dataQuality.consistency.score,
                completeness |-> dataQuality.completeness.score,
                timeliness   |-> dataQuality.timeliness.score,
                metadata     |-> dataQuality.validity.score]

\* the five scores differ and the overall score is none of 0 and 100
C6_Witness ==
    /\ Answered("data-readiness")
    /\ Len(services) = 2
    /\ Cardinality({FiveScores(dataQuality)[i] : i \in 1..5}) = 5
    /\ RLt(Num(0), dataQuality.overallScore)
    /\ RLt(dataQuality.overallScore, Num(100))

ReadinessScores(rm) ==
    <<rm.dataReadinessScore, rm.operationalReadinessScore, rm.qualityReadinessScore,
      rm.overallReadinessScore, rm.breakdown.dataCompleteness, rm.breakdown.dataFreshness,
      rm.breakdown.dataConsistency, rm.breakdown.operationalEfficiency,
      rm.breakdown.serviceReliability, rm.breakdown.costManagement,
      rm.breakdown.qualityAssurance, rm.breakdown.processMaturity>>

\* C8: the dashboard endpoint, for a non-empty record list, returns every
\* score of readinessMetrics within [0, 100].
C8_ReadinessScoresInRange ==
    (Answered("dashboard") /\ services # <<>>) => AllInRange(ReadinessScores(readinessMetrics))

IsNumber(x) == IsFinite(x)

\* C9: when the query succeeds with no record, either endpoint answers
\* 200, every dimension score, the overall score and the overall readiness
\* score are numbers, and criticalIssues holds the no-data marker.
C9_EmptySetAnswered ==
    (pc \in {"dashboard", "data-readiness"} /\ ~dbError /\ services = <<>>) =>
        /\ status = 200
        /\ \A i \in 1..5 : IsNumber(FiveScores(dataQuality)[i])
        /\ IsNumber(dataQuality.overallScore)
        /\ IsNumber(readinessMetrics.overallReadinessScore)
        /\ \E i \in 1..Len(readinessMetrics.criticalIssues) :
               readinessMetrics.criticalIssues[i] = "No data available for analysis"

\* the dashboard endpoint has answered an empty record list
C9_Witness ==
    /\ pc = "dashboard"
    /\ ~dbError
    /\ services = <<>>
    /\ status = 200
    /\ dataQuality.completeness.issues = <<"No services found in date range">>

\* C10: called on the empty list, every calculator of both endpoints
\* returns 100 for completeness, accuracy, consistency and metadata/validity
\* and 0 for timeliness.
C10_VacuousScoresOnEmptyList ==
    (pc = "calculators" /\ services = <<>>) =>
        /\ direct.completeness = Num(100)
        /\ direct.accuracy = Num(100)
        /\ direct.consistency = Num(100)
        /\ direct.metadata = Num(100)
        /\ direct.timeliness = Num(0)
        /\ direct.dashboard.completeness.score = Num(100)
        /\ direct.dashboard.accuracy.score = Num(100)
        /\ direct.dashboard.consistency.score = Num(100)
        /\ direct.dashboard.validity.score = Num(100)
        /\ direct.dashboard.timeliness.score = Num(0)

(***************************************************************************)
(* Claims about the ward groups                                            *)
(***************************************************************************)
RecordsOfWard(w) == {i \in 1..Len(services) : services[i].ward = w}

\* C12: validWards holds exactly one entry for each ward of 1..25 that has a
\* record and none for the other wards, in ascending ward order, each with
\* totalServices equal to the number of records of that ward; the anomaly
\* block counts the records of ward 66 and percentageOfTotalServices is
\* 100 x that count / the number of records.
C12_ValidWardsAndAnomalyCounts ==
    pc = "done" /\ services # <<>> =>
        LET vw == wardAnalysis.validWards
            w66 == wardAnalysis.invalidWard66
        IN  /\ \A w \in 1..ValidWardCount :
                   Cardinality({i \in 1..Len(vw) : vw[i].ward = w}) =
                       IF RecordsOfWard(w) = {} THEN 0 ELSE 1
            /\ \A i \in 1..Len(vw) :
                   /\ vw[i].ward \in 1..ValidWardCount
                   /\ vw[i].totalServices = Cardinality(RecordsOfWard(vw[i].ward))
            /\ \A i \in 1..Len(vw) - 1 : vw[i].ward < vw[i + 1].ward
            /\ w66.count = Cardinality(RecordsOfWard(Ward66))
            /\ RMul(w66.percentageOfTotalServices, Num(Len(services))) =
                   Num(100 * Cardinality(RecordsOfWard(Ward66)))

\* records of ward 3, then ward 66, then ward 1: two valid entries, in ward
\* order, and an anomaly block of one record in three
C12_Witness ==
    /\ pc = "done"
    /\ Len(services) = 3
    /\ services[1].ward = 3 /\ services[2].ward = Ward66 /\ services[3].ward = 1
    /\ Len(wardAnalysis.validWards) = 2
    /\ wardAnalysis.validWards[1].ward = 1
    /\ wardAnalysis.invalidWard66.count = 1
    /\ wardAnalysis.invalidWard66.percentageOfTotalServices = Div(100, 3)

(***************************************************************************)
(* Claims about the hybrid histogram                                       *)
(***************************************************************************)
\* e1 < e2 for two bin edges, exactly: a rational n/d against the edge
\* (a^(H-k) * b^k)^(1/H) by comparing the H-th powers
EdgeLt(e1, e2) ==
    CASE ~e1.log /\ ~e2.log -> RLt(e1.r, e2.r)
      [] ~e1.log /\ e2.log  ->
             Pow(e1.r.n, e2.H) < Pow(e2.a, e2.H - e2.k) * Pow(e2.b, e2.k) * Pow(e1.r.d, e2.H)
      [] e1.log /\ ~e2.log  ->
             Pow(e1.a, e1.H - e1.k) * Pow(e1.b, e1.k) * Pow(e2.r.d, e1.H) < Pow(e2.r.n, e1.H)
      [] OTHER ->
             Pow(Pow(e1.a, e1.H - e1.k) * Pow(e1.b, e1.k), e2.H) <
                 Pow(Pow(e2.a, e2.H - e2.k) * Pow(e2.b, e2.k), e1.H)

HybridSelected == PositiveCosts(services) # <<>> /\ IsHybrid(PositiveCosts(services))

\* C13: when hybrid mode is selected, the max values of the emitted bins
\* strictly increase in output order, across the linear and the logarithmic
\* segment.
C13_HybridMaxStrictlyIncreasing ==
    (pc = "done" /\ HybridSelected) =>
        \A i \in 1..Len(costDistribution) - 1 :
            EdgeLt(costDistribution[i].max, costDistribution[i + 1].max)

(***************************************************************************)
(* Claims about the monthly series                                         *)
(***************************************************************************)
Malformed(d) == d = BADDATE

\* the record list with every malformed start_date taken as absent
WithoutMalformed(svcs) ==
    [i \in 1..Len(svcs) |->
        IF Malformed(svcs[i].start_date) THEN [svcs[i] EXCEPT !.start_date = NULL]
        ELSE svcs[i]]

\* C11: a record with an unparseable start_date does not make the endpoint
\* return an error: the handler answers 200 and the monthly series is the one
\* of the records with that field taken as absent.
C11_MalformedDateTreatedAsAbsent ==
    (pc = "dashboard" /\ ~dbError /\ services # <<>>) =>
        /\ status = 200
        /\ timeSeries = calculateEnhancedTimeSeriesData(WithoutMalformed(services))

\* the percentage change of cur against prev, 0 when prev is 0
PercentChange(cur, prev) ==
    IF prev = 0 THEN Num(0) ELSE RMul(Div(cur - prev, prev), Num(100))

\* the percentage change of cur against prev, 0 unless prev is positive
PercentChangeOfPositive(cur, prev) ==
    IF prev > 0 THEN RMul(Div(cur - prev, prev), Num(100)) ELSE Num(0)

ChronologicallySorted(series) ==
    \A i \in 1..Len(series) - 1 : series[i].period < series[i + 1].period

\* C14 as stated: every month entry after the first has momChange.services
\* and momChange.cost equal to the percentage change of totalServices and of
\* totalCost against the preceding period of the sorted output, 0 when the
\* previous value is 0; both are 0 for the first period.
C14_MomChangeAgainstPrevious ==
    (Answered("dashboard") /\ services # <<>>) =>
        /\ ChronologicallySorted(timeSeries)
        /\ \A i \in 1..Len(timeSeries) :
               IF i = 1
               THEN /\ timeSeries[i].momChange.services = Num(0)
                    /\ timeSeries[i].momChange.cost = Num(0)
               ELSE /\ timeSeries[i].momChange.services =
                           PercentChange(timeSeries[i].totalServices,
                                         timeSeries[i - 1].totalServices)
                    /\ timeSeries[i].momChange.cost =
                           PercentChange(timeSeries[i].totalCost, timeSeries[i - 1].totalCost)

\* C14 amended: the same, with momChange.cost (and momChange.services) 0
\* whenever the previous value is not positive, a negative previous total
\* cost included.
C14_MomChangeAgainstPositivePrevious ==
    (Answered("dashboard") /\ services # <<>>) =>
        /\ ChronologicallySorted(timeSeries)
        /\ \A i \in 1..Len(timeSeries) :
               IF i = 1
               THEN /\ timeSeries[i].momChange.services = Num(0)
                    /\ timeSeries[i].momChange.cost = Num(0)
               ELSE /\ timeSeries[i].momChange.services =
                           PercentChangeOfPositive(timeSeries[i].totalServices,
                                                   timeSeries[i - 1].totalServices)
                    /\ timeSeries[i].momChange.cost =
                           PercentChangeOfPositive(timeSeries[i].totalCost,
                                                   timeSeries[i - 1].totalCost)

\* the later month was fetched first; one record, then two: +100 services
C14_Witness ==
    /\ Answered("dashboard")
    /\ Len(services) = 3
    /\ services[1].start_date = Today
    /\ Len(timeSeries) = 2
    /\ timeSeries[1].period = 202409
    /\ timeSeries[2].momChange.services = Num(100)
    /\ timeSeries[2].momChange.cost = Num(200)

(***************************************************************************)
(* Claims about the calculators' effect on their input                     *)
(***************************************************************************)
\* C15: no calculator changes the record list it is given: across every call,
\* in whatever order the six are made, the list keeps the same records in
\* the same order with the same fields, and once all six have run each
\* result is the function of that list, whichever of the others ran first.
C15_CalculatorsLeaveInputAlone ==
    /\ [][ran' # ran => services' = services]_vars
    /\ [](ran = Calculators =>
            /\ dataQuality = calculateDataQualityMetrics(services)
            /\ timeSeries = calculateEnhancedTimeSeriesData(services)
            /\ costDistribution = calculateCostDistribution(services)
            /\ highestExpenses = calculateHighestExpenses(services)
            /\ wardAnalysis = calculateWardAnalysis(services)
            /\ readinessMetrics =
                   calculateReadinessMetrics(services, calculateDataQualityMetrics(services)))

\* all six have run over two records that a sort by cost would exchange
C15_Witness ==
    /\ ran = Calculators
    /\ Len(services) = 2
    /\ services[1].id = 1
    /\ services[1].estimated_cost < services[2].estimated_cost
    /\ Len(highestExpenses) = 2
    /\ highestExpenses[1].id = 2
    /\ Len(timeSeries) = 2

(***************************************************************************)
(* Claims about the dimension calculators of the data-readiness endpoint   *)
(***************************************************************************)
Records == 1..Len(services)

\* the validity checks of a record, as the accuracy rule lists them
FailsWardCheck(s) == s.ward # NULL /\ (s.ward < 1 \/ s.ward > ValidWardCount)

FailsDateCheck(s) ==
    \/ s.start_date # NULL /\ OutsideWindow(s.start_date)
    \/ s.end_date # NULL /\ OutsideWindow(s.end_date)
    \/ s.start_date # NULL /\ s.end_date # NULL /\ s.end_date < s.start_date

FailsCostCheck(s) == s.estimated_cost # NULL /\ s.estimated_cost < 0

FailsResultCheck(s) ==
    s.service_result \notin {NULLSTR, "", "PASS", "FAIL", "UNKNOWN"}

ChecksFailed(s) ==
    Cardinality({c \in {"ward", "date", "cost", "result"} :
                    \/ c = "ward" /\ FailsWardCheck(s)
                    \/ c = "date" /\ FailsDateCheck(s)
                    \/ c = "cost" /\ FailsCostCheck(s)
                    \/ c = "result" /\ FailsResultCheck(s)})

\* 100 x (total - halves / 2) / total, floored at 0
ScoreOfHalves(halves, total) ==
    RMax(Num(0), RMul(Div(2 * total - halves, 2 * total), Num(100)))

\* C16 as stated: accuracy is 100 x (total - violations) / total floored at
\* 0, a record that fails k of the ward, date, cost and result checks
\* contributing k violations (and an UNKNOWN result half a violation).
C16_AccuracyCountsEveryFailedCheck ==
    (pc = "calculators" /\ services # <<>>) =>
        direct.accuracy =
            ScoreOfHalves(SumSeq([i \in Records |->
                              2 * ChecksFailed(services[i])
                              + (IF services[i].service_result = "UNKNOWN" THEN 1 ELSE 0)]),
                          Len(services))

\* C16 amended: a record contributes one violation when it fails at least
\* one of the checks, however many, half a violation when it fails none and
\* its result is the string UNKNOWN, and none otherwise; the score is
\* 100 x (total - violations) / total, which is never negative.
C16_AccuracyCountsInvalidRecords ==
    (pc = "calculators" /\ services # <<>>) =>
        /\ direct.accuracy =
               ScoreOfHalves(SumSeq([i \in Records |->
                                 IF ChecksFailed(services[i]) > 0 THEN 2
                                 ELSE IF services[i].service_result = "UNKNOWN" THEN 1
                                 ELSE 0]),
                             Len(services))
        /\ RLe(Num(0), direct.accuracy)

\* one record fails all four checks, the other none: accuracy is 50
C16_Witness ==
    /\ pc = "calculators"
    /\ Len(services) = 2
    /\ ChecksFailed(services[1]) = 4
    /\ ChecksFailed(services[2]) = 0
    /\ services[2].service_result = "PASS"
    /\ direct.accuracy = Num(50)

AbsentResult(s) == s.service_result = NULLSTR \/ s.service_result = ""

AbsentResults == {i \in Records : AbsentResult(services[i])}

\* C17: a record whose result is absent (null or '') is not counted as
\* fully populated by calculateCompleteness, and calculateAccuracy charges it
\* half a violation: a list that is valid otherwise, with u such records out
\* of n, has accuracy 100 x (n - u / 2) / n.
C17_AbsentResultCountsInBothDimensions ==
    (pc = "calculators" /\ services # <<>>) =>
        /\ RLe(direct.completeness,
               RMul(Div(Len(services) - Cardinality(AbsentResults), Len(services)), Num(100)))
        /\ (\A i \in Records : /\ ChecksFailed(services[i]) = 0
                               /\ services[i].service_result # "UNKNOWN") =>
               direct.accuracy = ScoreOfHalves(Cardinality(AbsentResults), Len(services))

(***************************************************************************)
(* Claims about the completeness score                                     *)
(***************************************************************************)
Populated(field, s) ==
    CASE field = "division" -> s.service_division_owner \notin {NULLSTR, ""}
      [] field = "start_date" -> s.start_date # NULL
      [] field = "end_date" -> s.end_date # NULL
      [] field = "cost" -> s.estimated_cost # NULL
      [] field = "ward" -> s.ward # NULL
      [] field = "result" -> s.service_result \notin {NULLSTR, ""}

RequiredFields == {"division", "start_date", "end_date", "cost", "ward", "result"}

\* 100 x (the number of records of `set`) / total records
ShareOfRecords(set) == RMul(Div(Cardinality(set), Len(services)), Num(100))

OneCase(label) == label = ToUpperCase(label) \/ label = ToLowerCase(label)

\* the four rules of the consistency dimension, UNKNOWN being an absent or
\* empty result (or the string itself) and the label of any length
RuledInconsistent(s) ==
    \/ s.service_result \in {"PASS", "FAIL"} /\ ~Populated("division", s)
    \/ s.estimated_cost # NULL /\ s.estimated_cost > 0
         /\ ~(Populated("division", s) /\ Populated("start_date", s) /\ Populated("end_date", s))
    \/ (AbsentResult(s) \/ s.service_result = "UNKNOWN")
         /\ s.estimated_cost # NULL /\ s.estimated_cost > 100000
    \/ Populated("division", s) /\ OneCase(s.service_division_owner)

\* C19: calculateConsistency counts a record once exactly when one of the
\* four rules holds of it, and the score is
\* 100 x (total - inconsistent) / total.
C19_ConsistencyRules ==
    (pc = "calculators" /\ services # <<>>) =>
        direct.consistency =
            ShareOfRecords({i \in Records : ~RuledInconsistent(services[i])})

(***************************************************************************)
(* Claims about the timeliness score                                       *)
(***************************************************************************)
EndDated == {i \in Records : services[i].end_date # NULL}

BothDated == {i \in EndDated : services[i].start_date # NULL}

\* the place of record i among the both-dated records sorted by end_date,
\* records of equal end_date keeping their order
PlaceByEnd(i) ==
    1 + Cardinality({j \in BothDated :
            \/ services[j].end_date < services[i].end_date
            \/ services[j].end_date = services[i].end_date /\ j < i})

RecordAtPlace(k) == CHOOSE i \in BothDated : PlaceByEnd(i) = k

\* the sum of the positive gaps start[k+1] - end[k] of the sorted records
PositiveGapDays ==
    SumSeq([k \in 1..(IF BothDated = {} THEN 0 ELSE Cardinality(BothDated) - 1) |->
        LET gap == services[RecordAtPlace(k + 1)].start_date - services[RecordAtPlace(k)].end_date
        IN  IF gap > 0 THEN gap ELSE 0])

DaysSinceMostRecentEnd ==
    Today - (CHOOSE d \in {services[i].end_date : i \in EndDated} :
                 \A i \in EndDated : services[i].end_date <= d)

Clamp(lo, hi, x) == IF RLt(x, lo) THEN lo ELSE IF RLt(hi, x) THEN hi ELSE x

MetadataFields == {"division", "result", "ward", "cost", "notes"}

\* the fields of MetadataFields that some record of the list populates
PopulatedAnywhere ==
    {f \in MetadataFields :
        \E i \in Records :
            IF f = "notes" THEN services[i].notes \notin {NULLSTR, ""}
            ELSE Populated(f, services[i])}

\* value diversity: the mean of the division diversity and the ward diversity
ValueDiversity ==
    LET divisions == {services[i].service_division_owner : i \in
                         {k \in Records : Populated("division", services[k])}}
        wards == {services[i].ward : i \in {k \in Records : Populated("ward", services[k])}}
    IN  RDiv(RAdd(RMin(Num(100), RDiv(Num(100 * Cardinality(divisions)),
                                      RMax(Num(1), Div(Len(services), 100)))),
                  RMin(Num(100), Div(100 * Cardinality(wards), 25))),
             Num(2))

\* notes quality: 30 for the share of records with notes, 70 for the share
\* of records whose notes are longer than 10 characters
NotesQuality ==
    LET anyNotes == {i \in Records : services[i].notes \in {"ok", "Inspection completed on site"}}
        longNotes == {i \in Records : services[i].notes = "Inspection completed on site"}
    IN  Div(30 * Cardinality(anyNotes) + 70 * Cardinality(longNotes), Len(services))

\* uniqueness: the share of records that do not repeat an earlier record's
\* (start_date, end_date, division, ward)
Uniqueness ==
    ShareOfRecords({i \in Records : \A j \in 1..(i - 1) : RecordKey(services[j]) # RecordKey(services[i])})

\* C21: the field-diversity sub-score of calculateMetadataQuality is
\* 100 x (fields of {division, result, ward, cost, notes} populated in at
\* least one record) / 5, and it enters the metadata score with weight 25%
\* next to the value-diversity, notes-quality and uniqueness sub-scores.
C21_FieldDiversityOverFive ==
    (pc = "calculators" /\ services # <<>>) =>
        direct.metadata =
            RDiv(RAdd(RAdd(Div(100 * Cardinality(PopulatedAnywhere), 5), ValueDiversity),
                      RAdd(NotesQuality, Uniqueness)),
                 Num(4))

(***************************************************************************)
(* Claims about the issues and recommendations of the responses            *)
(***************************************************************************)
DimensionNames == {"completeness", "accuracy", "timeliness", "consistency", "validity"}

DimensionOf(name) ==
    CASE name = "completeness" -> dataQuality.completeness
      [] name = "accuracy" -> dataQuality.accuracy
      [] name = "timeliness" -> dataQuality.timeliness
      [] name = "consistency" -> dataQuality.consistency
      [] name = "validity" -> dataQuality.validity

\* C22: in the dimensions built by calculateAuditAlignedDataQuality and
\* calculateDataQualityMetrics, issues is non-empty only when the score is
\* below the dimension's threshold. Scores never exceed 100, so whatever
\* the threshold of a dimension is, a dimension that scores 100 has no
\* issues.
C22_IssuesOnlyBelowThreshold ==
    ((Answered("dashboard") \/ Answered("data-readiness")) /\ services # <<>>) =>
        \A name \in DimensionNames :
            DimensionOf(name).score = Num(100) => DimensionOf(name).issues = <<>>

\* the issue text of the recommendation that the rule behind a critical
\* issue pushes (toronto-dashboard.ts 843-876, supabase.ts 584-605)
RecommendationIssueOf(criticalIssue) ==
    CASE criticalIssue = "Incomplete data records affecting analysis quality" ->
             "Data completeness below 90%"
      [] criticalIssue = "Low service success rate indicating operational issues" ->
             "Service pass rate below 80%"
      [] criticalIssue = "records with invalid ward numbers (Ward 66 doesn't exist)" ->
             "Invalid ward numbers detected"
      [] criticalIssue = "Data staleness: dataset is significantly outdated" ->
             "Data freshness below acceptable levels"
      [] OTHER -> "none"

\* every critical issue has the recommendation of its rule, and there are
\* at least as many recommendations as critical issues
EachCriticalIssueRecommended ==
    /\ \A k \in 1..Len(readinessMetrics.criticalIssues) :
          \E r \in 1..Len(readinessMetrics.recommendations) :
              readinessMetrics.recommendations[r].issue =
                  RecommendationIssueOf(readinessMetrics.criticalIssues[k])
    /\ Len(readinessMetrics.recommendations) >= Len(readinessMetrics.criticalIssues)

\* C23 as stated: in every readinessMetrics object the endpoints return,
\* the empty-data result included, each rule that adds a critical issue
\* adds a recommendation record, so recommendations holds at least one
\* record per critical issue.
C23_EveryCriticalIssueRecommended ==
    (Answered("dashboard") \/ Answered("data-readiness")) => EachCriticalIssueRecommended

\* C23 amended: the pairing holds for the objects computed from a
\* non-empty record set; the empty-data result carries the "no data"
\* marker as its only critical issue and no recommendation.
C23_CriticalIssueRecommendedUnlessEmpty ==
    (Answered("dashboard") \/ Answered("data-readiness")) =>
        IF services # <<>> THEN EachCriticalIssueRecommended
        ELSE /\ readinessMetrics.criticalIssues = <<"No data available for analysis">>
             /\ readinessMetrics.recommendations = <<>>

\* the data-readiness endpoint reports both audit issues, each with its
\* recommendation
C23_Witness ==
    /\ Answered("data-readiness")
    /\ services # <<>>
    /\ Len(readinessMetrics.criticalIssues) = 2
    /\ Len(readinessMetrics.recommendations) = 2

(***************************************************************************)
(* Claims about the cost efficiency of wards and months                    *)
(***************************************************************************)
\* (passRate/100) / (avgCost/1000) when avgCost > 0, else 0
GroupEfficiency(passRate, avgCost) ==
    IF RLt(Num(0), avgCost)
    THEN RDiv(RDiv(passRate, Num(100)), RDiv(avgCost, Num(1000)))
    ELSE Num(0)

\* C24: every entry of validWards has costEfficiency equal to
\* (passRate/100) / (avgCost/1000) of the same entry when its avgCost is
\* positive and 0 otherwise, wards of zero or negative total cost included.
C24_WardCostEfficiency ==
    pc = "done" =>
        \A k \in 1..Len(wardAnalysis.validWards) :
            LET entry == wardAnalysis.validWards[k]
            IN  entry.costEfficiency = GroupEfficiency(entry.passRate, entry.avgCost)

\* a ward whose costs cancel out (1000 - 500 - 500) holds a passing record
\* and reports efficiency 0
C24_Witness ==
    /\ pc = "done"
    /\ \E k \in 1..Len(wardAnalysis.validWards) :
          /\ wardAnalysis.validWards[k].totalCost = 0
          /\ wardAnalysis.validWards[k].totalServices = 3
          /\ RLt(Num(0), wardAnalysis.validWards[k].passRate)
          /\ wardAnalysis.validWards[k].costEfficiency = Num(0)

\* a month entry and a ward entry of one response with identical pass rate
\* and average cost
Alike(month, ward) == month.passRate = ward.passRate /\ month.avgCost = ward.avgCost

\* C25 as stated: each month's costEfficiency is (passRate/100) /
\* (avgCost/1000) when avgCost > 0 and 0 otherwise, so a month and a ward
\* with identical pass rate and average cost report the same costEfficiency.
C25_MonthEfficiencyMirrorsWard ==
    Answered("dashboard") =>
        \A k \in 1..Len(timeSeries) :
            /\ timeSeries[k].costEfficiency =
                   GroupEfficiency(timeSeries[k].passRate, timeSeries[k].avgCost)
            /\ \A l \in 1..Len(wardAnalysis.validWards) :
                  Alike(timeSeries[k], wardAnalysis.validWards[l]) =>
                      timeSeries[k].costEfficiency = wardAnalysis.validWards[l].costEfficiency

\* C25 amended: each month's costEfficiency is passRate / (avgCost/1000)
\* when avgCost > 0 and 0 otherwise, the pass rate taken in percent, so a
\* month reports 100 times the costEfficiency of a ward with identical pass
\* rate and average cost.
C25_MonthEfficiencyIsHundredfold ==
    Answered("dashboard") =>
        \A k \in 1..Len(timeSeries) :
            /\ timeSeries[k].costEfficiency =
                   (IF RLt(Num(0), timeSeries[k].avgCost)
                    THEN RDiv(RMul(timeSeries[k].passRate, Num(1000)), timeSeries[k].avgCost)
                    ELSE Num(0))
            /\ \A l \in 1..Len(wardAnalysis.validWards) :
                  Alike(timeSeries[k], wardAnalysis.validWards[l]) =>
                      timeSeries[k].costEfficiency =
                          RMul(Num(100), wardAnalysis.validWards[l].costEfficiency)

\* all records of ward 5 start in one month: pass rate 50, average cost 15,
\* the ward reports 100/3 and the month 10000/3
C25_Witness ==
    /\ Answered("dashboard")
    /\ Len(timeSeries) = 1
    /\ Len(wardAnalysis.validWards) = 1
    /\ Alike(timeSeries[1], wardAnalysis.validWards[1])
    /\ timeSeries[1].passRate = Num(50)
    /\ timeSeries[1].avgCost = Num(15)
    /\ wardAnalysis.validWards[1].costEfficiency = Div(100, 3)
    /\ timeSeries[1].costEfficiency = Div(10000, 3)

(***************************************************************************)
(* Further claims about the monthly series                                 *)
(***************************************************************************)
\* C26: momChange.passRate of a month is the percentage change of its pass
\* rate against the pass rate of the immediately preceding month,
\* 100 x (passRate - previous passRate) / previous passRate, and 0 when
\* there is no preceding month or the preceding pass rate is 0.
C26_PassRateChangeIsRelative ==
    Answered("dashboard") =>
        \A k \in 1..Len(timeSeries) :
            timeSeries[k].momChange.passRate =
                IF k = 1 THEN Num(0)
                ELSE IF timeSeries[k - 1].passRate = Num(0) THEN Num(0)
                ELSE RMul(Num(100), RDiv(RSub(timeSeries[k].passRate, timeSeries[k - 1].passRate),
                                         timeSeries[k - 1].passRate))

(***************************************************************************)
(* Further claims about the cost histogram                                 *)
(***************************************************************************)
\* clamp(6, 12, ceil(sqrt(n) x 0.8)): ceil(sqrt(n) x 0.8) is the least k
\* with 25 k^2 >= 16 n
BinTarget(n) ==
    LET c == CHOOSE k \in 0..n : 25 * k * k >= 16 * n /\ \A j \in 0..(k - 1) : 25 * j * j < 16 * n
    IN  IF c < 6 THEN 6 ELSE IF c > 12 THEN 12 ELSE c

\* C27: for n records of positive cost calculateCostDistribution emits at
\* most clamp(6, 12, ceil(sqrt(n) x 0.8)) bins, in equal-width mode and in
\* hybrid mode (both segments together), and every emitted bin has a count
\* of at least 1.
C27_BinsWithinTargetAndNonEmpty ==
    (pc = "done" /\ PositiveCosts(services) # <<>>) =>
        /\ Len(costDistribution) <= BinTarget(Len(PositiveCosts(services)))
        /\ \A j \in 1..Len(costDistribution) : costDistribution[j].count >= 1

\* hybrid mode with a linear and a logarithmic segment, empty bins left out
C27_Witness ==
    /\ pc = "done"
    /\ HybridSelected
    /\ \E j \in 1..Len(costDistribution) : costDistribution[j].openLow
    /\ \E j \in 1..Len(costDistribution) : ~costDistribution[j].openLow
    /\ Len(costDistribution) < BinTarget(Len(PositiveCosts(services)))

\* C28: in every month entry passCount + failCount + unknownCount =
\* totalServices and passRate + failRate + unknownRate = 100; the
\* totalServices of all entries add up to the number of records with a
\* non-empty start_date; the periods are pairwise distinct and ascend.
C28_SeriesConservesRecords ==
    Answered("dashboard") =>
        /\ \A k \in 1..Len(timeSeries) :
              /\ timeSeries[k].passCount + timeSeries[k].failCount + timeSeries[k].unknownCount
                     = timeSeries[k].totalServices
              /\ RAdd(RAdd(timeSeries[k].passRate, timeSeries[k].failRate),
                      timeSeries[k].unknownRate) = Num(100)
        /\ SumSeq([k \in 1..Len(timeSeries) |-> timeSeries[k].totalServices])
               = Cardinality({i \in Records : services[i].start_date # NULL})
        /\ ChronologicallySorted(timeSeries)

\* three records, one without start_date, the later month fetched first;
\* one of the two months holds a record of unknown result
C28_Witness ==
    /\ Answered("dashboard")
    /\ Len(services) = 3
    /\ Len(timeSeries) = 2
    /\ \E i \in Records : services[i].start_date = NULL
    /\ \E i, j \in Records : i < j /\ services[i].start_date # NULL /\ services[j].start_date # NULL
                             /\ services[j].start_date < services[i].start_date
    /\ \E k \in 1..2 : timeSeries[k].unknownCount = 1

(***************************************************************************)
(* Further claims about the timeliness score                               *)
(***************************************************************************)
\* the union of the [start_date, end_date] intervals of the both-dated
\* records has no hole: each day-to-day step between the earliest start and
\* the latest end lies within some record's interval
ContiguousCoverage ==
    LET earliest == CHOOSE d \in {services[i].start_date : i \in BothDated} :
                        \A i \in BothDated : d <= services[i].start_date
        latest   == CHOOSE d \in {services[i].end_date : i \in BothDated} :
                        \A i \in BothDated : services[i].end_date <= d
    IN  \A d \in earliest..(latest - 1) :
            \E i \in BothDated : services[i].start_date <= d /\ d + 1 <= services[i].end_date

\* C29: when the union of the intervals of the both-dated records is
\* contiguous, calculateTimeliness counts no gap day and the coverage
\* sub-score is 100, so the score is 0.6 x recency + 0.4 x 100 (for two or
\* more both-dated records, where the code computes the coverage).
C29_NoGapWhenContiguous ==
    (pc = "calculators" /\ Cardinality(BothDated) >= 2 /\ ContiguousCoverage) =>
        direct.timeliness =
            RDiv(RAdd(RMul(Num(6), Clamp(Num(0), Num(100),
                                         Div(100 * (365 - DaysSinceMostRecentEnd), 365))),
                      Num(400)),
                 Num(10))

(***************************************************************************)
(* Claims about the filters of the page and its URL                        *)
(***************************************************************************)
\* the router is ready, the hook initialized and no URL-sync effect is due
Settled == routerIsReady /\ isReady /\ ~syncPending

====
